---------------------------- MODULE Spec2Model ----------------------------
(***************************************************************************)
(* Model of the sapix routing core: the LRU/TTL Cache (lib/utils/cache),   *)
(* the pattern matcher (lib/utils/patternMatcher), and the SapixRoutes     *)
(* route table, dispatcher and middleware chain (lib/route).               *)
(*                                                                         *)
(* JavaScript strings are modelled as sequences of one-character strings,  *)
(* so that split, startsWith, slice and the validators' regular            *)
(* expressions are computed as the code computes them.                     *)
(*                                                                         *)
(* Specifications:                                                         *)
(*   SpecCache  one Cache instance driven by arbitrary calls, its          *)
(*              per-entry timers, its sweep and a discrete clock.          *)
(*   Spec       routes are registered while requests are resolved and     *)
(*              dispatched through the shared cache.                       *)
(*   SpecMw     middlewares are tapped, then requests run the chain over   *)
(*              a fixed route table.                                       *)
(*   SpecMatch, SpecEdge  matchURLToPatterns applied to one path and a     *)
(*              list of patterns.                                          *)
(*   SpecReg    routes are registered between requests that follow one     *)
(*              another.                                                   *)
(*   SpecPrefix prefix() and the registration methods at startup.          *)
(*   SpecPair   two requests interleave over a fixed route table.          *)
(*   SpecHash   Blake2Hasher.hash applied to two values of one heap.       *)
(*   SpecTutorial  matchURLToPatterns applied to the rows of the tutorial  *)
(*              table of typed path parameters.                            *)
(***************************************************************************)
EXTENDS Integers, Sequences, FiniteSets, TLC

VARIABLES
    _cache,          \* Cache._cache: the Map, as the sequence of its entries in insertion order
    _maxSize,        \* Cache._maxSize
    cleanupTimer,    \* TRUE while the setInterval sweep of _startCleanup is active
    timers,          \* pending setTimeout callbacks of set(): records [key, due]
    now,             \* Date.now()
    emitted,         \* the events emitted by the most recent cache operation, in order
    recency,         \* history: the stored keys in order of their most recent set or successful get
    overwrote,       \* history: the most recent cache operation was a set of a key the Map held
    fired,           \* history: the key whose set() timer callback ran in the most recent cache operation, "" if none did
    routes,          \* SapixRoutes.routes: method -> route table (keys in insertion order)
    prefix_route,    \* SapixRoutes.prefix_route
    middlewares,     \* SapixRoutes.middlewares
    sapix_api,       \* the handler files under sapix_api/: file -> what the module exports
    req,             \* the routeHandle calls: request id -> state of the call and of its response
    matchFile,       \* matchURLToPatterns: the path of `files` that is matched
    matchPatterns,   \* matchURLToPatterns: `patterns`, in the order they are supplied
    mappings,        \* matchURLToPatterns: the Map it returns, path -> mapping
    heap,            \* Blake2Hasher: the objects the hashed values refer to, by identity
    digests          \* Blake2Hasher: what hash() came to for each of the hashed values

cacheVars == <<_cache, _maxSize, cleanupTimer, timers, now, emitted, recency, overwrote, fired>>

routerVars == <<routes, prefix_route, middlewares, sapix_api, req>>

matchVars == <<matchFile, matchPatterns, mappings>>

hashVars == <<heap, digests>>

vars == <<_cache, _maxSize, cleanupTimer, timers, now, emitted, recency, overwrote, fired,
          routes, prefix_route, middlewares, sapix_api, req, matchFile, matchPatterns, mappings,
          heap, digests>>

-----------------------------------------------------------------------------
(* Bounds of the model *)

MaxTime == 1
MaxTimers == 1
MaxMiddlewares == 2
MaxNextCalls == 3

-----------------------------------------------------------------------------
(* JavaScript values *)

\* null, for a ttl or an expiry; every number the model uses for them is >= 0
Null == -1

\* ToNumber(x) for x a number or null, as applied by the relational operators
ToNumber(x) ==
    IF x = Null THEN 0 ELSE x

\* typeof x === 'number' for x a number or null
IsNumber(x) ==
    x # Null

-----------------------------------------------------------------------------
(* Cache (lib/utils/cache.mjs) *)

CacheKeys == {"a", "b", "c"}
CacheValues == {"v1", "v2"}
CacheTTLs == {Null, 1}

\* The maxSize options the Cache is constructed with
CacheSizes == {1, 2}

Event(name, key, value) ==
    [name |-> name, key |-> key, value |-> value]

\* Map.prototype.has
MapHas(m, key) ==
    \E i \in 1..Len(m) : m[i].key = key

\* Map.prototype.get, for a key the map has
MapGet(m, key) ==
    m[CHOOSE i \in 1..Len(m) : m[i].key = key]

\* Map.prototype.delete
MapDelete(m, key) ==
    SelectSeq(m, LAMBDA e : e.key # key)

\* Map.prototype.set: a new key goes last, an existing key keeps its position
MapSet(m, key, entry) ==
    IF MapHas(m, key)
    THEN [i \in 1..Len(m) |-> IF m[i].key = key THEN entry ELSE m[i]]
    ELSE Append(m, entry)

Entry(key, value, expiry) ==
    [key |-> key, value |-> value, expiry |-> expiry]

\* set() evicting only once the Map is over its maximum
SetMakeRoomOffByOne(m, max, key) ==
    IF MapHas(m, key)
    THEN [map |-> MapDelete(m, key), events |-> <<>>]
    ELSE IF Len(m) > max
         THEN [map |-> MapDelete(m, m[1].key),
               events |-> <<Event("evict", m[1].key, m[1].value)>>]
         ELSE [map |-> m, events |-> <<>>]

\* set() testing the size before it tests whether the key is stored
SetMakeRoomSizeFirst(m, max, key) ==
    IF Len(m) >= max
    THEN [map |-> MapDelete(MapDelete(m, m[1].key), key),
          events |-> <<Event("evict", m[1].key, m[1].value)>>]
    ELSE [map |-> MapDelete(m, key), events |-> <<>>]

\* The part of set() that makes room: lines 167-175
SetMakeRoom(m, max, key) ==
    IF MapHas(m, key)
    THEN [map |-> MapDelete(m, key), events |-> <<>>]
    ELSE IF Len(m) >= max
         THEN [map |-> MapDelete(m, m[1].key),
               events |-> <<Event("evict", m[1].key, m[1].value)>>]
         ELSE [map |-> m, events |-> <<>>]

\* Cache.set(key, value, ttl): the map, the pending timers and the events after the call
CacheSet(m, max, tm, t, key, value, ttl) ==
    LET room == SetMakeRoom(m, max, key)
        expiry == IF IsNumber(ttl) THEN t + ttl ELSE Null
    IN  [map |-> MapSet(room.map, key, Entry(key, value, expiry)),
         events |-> Append(room.events, Event("set", key, value)),
         timers |-> IF expiry # Null
                    THEN tm \cup {[key |-> key, due |-> t + ttl]}
                    ELSE tm]

\* get() leaving the entry at its position in the Map
CacheGetNoRefresh(m, t, key) ==
    IF ~MapHas(m, key)
    THEN [map |-> m, events |-> <<>>, hit |-> FALSE]
    ELSE LET entry == MapGet(m, key)
         IN  IF entry.expiry # Null /\ entry.expiry <= t
             THEN [map |-> MapDelete(m, key),
                   events |-> <<Event("expired", key, entry.value)>>,
                   hit |-> FALSE]
             ELSE [map |-> m,
                   events |-> <<Event("get", key, entry.value)>>,
                   hit |-> TRUE]

\* Cache.get(key): the map, the events and whether a value is returned
CacheGet(m, t, key) ==
    IF ~MapHas(m, key)
    THEN [map |-> m, events |-> <<>>, hit |-> FALSE]
    ELSE LET entry == MapGet(m, key)
         IN  IF entry.expiry # Null /\ entry.expiry <= t
             THEN [map |-> MapDelete(m, key),
                   events |-> <<Event("expired", key, entry.value)>>,
                   hit |-> FALSE]
             ELSE [map |-> MapSet(MapDelete(m, key), key, entry),
                   events |-> <<Event("get", key, entry.value)>>,
                   hit |-> TRUE]

\* Cache.delete(key)
CacheDelete(m, key) ==
    IF MapHas(m, key)
    THEN [map |-> MapDelete(m, key),
          events |-> <<Event("delete", key, MapGet(m, key).value)>>]
    ELSE [map |-> m, events |-> <<>>]

\* Cache.clear(): every entry is deleted, in iteration order
CacheClearSkipping(m) ==
    [map |-> SelectSeq(m, LAMBDA e : \E i \in 1..Len(m) : m[i] = e /\ i % 2 = 0),
     events |-> [i \in 1..((Len(m) + 1) \div 2) |->
                   Event("delete", m[2 * i - 1].key, m[2 * i - 1].value)]]

CacheClear(m) ==
    [map |-> <<>>,
     events |-> [i \in 1..Len(m) |-> Event("delete", m[i].key, m[i].value)]]

\* The callback of _startCleanup's setInterval
SweepExpired(m, t) ==
    LET dead(e) == e.expiry # Null /\ e.expiry <= t
        gone == SelectSeq(m, dead)
    IN  [map |-> SelectSeq(m, LAMBDA e : ~dead(e)),
         events |-> [i \in 1..Len(gone) |-> Event("expired", gone[i].key, gone[i].value)]]

\* The callback removing whatever entry the key holds when it runs
TimerExpiredUnchecked(m, t, key) ==
    IF MapHas(m, key)
    THEN [map |-> MapDelete(m, key),
          events |-> <<Event("expired", key, MapGet(m, key).value)>>]
    ELSE [map |-> m, events |-> <<>>]

\* The callback of set()'s setTimeout for `key`: lines 182-188
TimerExpired(m, t, key) ==
    IF MapHas(m, key) /\ ToNumber(MapGet(m, key).expiry) <= t
    THEN [map |-> MapDelete(m, key),
          events |-> <<Event("expired", key, MapGet(m, key).value)>>]
    ELSE [map |-> m, events |-> <<>>]

\* The recency of the stored keys, oldest first: a key becomes the most recent
\* on every set of it and on every successful get of it
Touch(r, key) ==
    Append(SelectSeq(r, LAMBDA k : k # key), key)

Stored(r, m) ==
    SelectSeq(r, LAMBDA k : MapHas(m, k))

-----------------------------------------------------------------------------
(* JavaScript strings, as sequences of one-character strings *)

LowerLetters == <<"a", "b", "c", "d", "e", "f", "g", "h", "i", "j", "k", "l", "m", "n", "o", "p", "q", "r", "s", "t", "u", "v", "w", "x", "y", "z">>
UpperLetters == <<"A", "B", "C", "D", "E", "F", "G", "H", "I", "J", "K", "L", "M", "N", "O", "P", "Q", "R", "S", "T", "U", "V", "W", "X", "Y", "Z">>
Digits == <<"0", "1", "2", "3", "4", "5", "6", "7", "8", "9">>

Range(s) ==
    {s[i] : i \in 1..Len(s)}

\* String.prototype.toUpperCase
ToUpperCase(s) ==
    [i \in 1..Len(s) |->
        IF s[i] \in Range(LowerLetters)
        THEN UpperLetters[CHOOSE j \in 1..26 : LowerLetters[j] = s[i]]
        ELSE s[i]]

\* String.prototype.toLowerCase
ToLowerCase(s) ==
    [i \in 1..Len(s) |->
        IF s[i] \in Range(UpperLetters)
        THEN LowerLetters[CHOOSE j \in 1..26 : UpperLetters[j] = s[i]]
        ELSE s[i]]

\* String.prototype.startsWith
StartsWith(s, p) ==
    Len(p) <= Len(s) /\ SubSeq(s, 1, Len(p)) = p

\* String.prototype.endsWith
EndsWith(s, p) ==
    Len(p) <= Len(s) /\ SubSeq(s, Len(s) - Len(p) + 1, Len(s)) = p

\* String.prototype.includes
StringIncludes(s, p) ==
    \E i \in 0..(Len(s) - Len(p)) : SubSeq(s, i + 1, i + Len(p)) = p

\* s.split(c) for a one-character separator c: the pieces, empty ones included
RECURSIVE SplitFrom(_, _, _, _)
SplitFrom(s, c, i, piece) ==
    IF i > Len(s) THEN <<piece>>
    ELSE IF s[i] = c THEN <<piece>> \o SplitFrom(s, c, i + 1, <<>>)
    ELSE SplitFrom(s, c, i + 1, Append(piece, s[i]))

Split(s, c) ==
    SplitFrom(s, c, 1, <<>>)

\* parts.filter(Boolean): the non-empty strings
FilterBoolean(parts) ==
    SelectSeq(parts, LAMBDA p : Len(p) > 0)

\* parts.join(c)
RECURSIVE Join(_, _)
Join(parts, c) ==
    IF Len(parts) = 0 THEN <<>>
    ELSE IF Len(parts) = 1 THEN parts[1]
    ELSE parts[1] \o <<c>> \o Join(Tail(parts), c)

\* s.replace(/\/+$/, ''): the string without its trailing slashes
RECURSIVE StripTrailingSlashes(_)
StripTrailingSlashes(s) ==
    IF Len(s) > 0 /\ s[Len(s)] = "/"
    THEN StripTrailingSlashes(SubSeq(s, 1, Len(s) - 1))
    ELSE s

\* /^[class]+$/.test(s)
AllIn(s, class) ==
    Len(s) >= 1 /\ \A i \in 1..Len(s) : s[i] \in class

-----------------------------------------------------------------------------
(* Pattern matcher (lib/utils/patternMatcher.mjs) *)

\* null as the declared type of an untyped segment, and the text `undefined`
\* that a template literal prints for a name the Map does not hold
NullType == <<"null">>
UndefinedText == <<"u", "n", "d", "e", "f", "i", "n", "e", "d">>

\* A Map or plain object with string keys, as a function
EmptyMap == [k \in {} |-> <<>>]

ObjSet(o, k, v) ==
    [x \in (DOMAIN o) \cup {k} |-> IF x = k THEN v ELSE o[x]]

T_number == <<"n", "u", "m", "b", "e", "r">>
T_string == <<"s", "t", "r", "i", "n", "g">>
T_uuid == <<"u", "u", "i", "d">>
T_email == <<"e", "m", "a", "i", "l">>
T_version == <<"v", "e", "r", "s", "i", "o", "n">>
T_alphanumeric == <<"a", "l", "p", "h", "a", "n", "u", "m", "e", "r", "i", "c">>
T_boolean == <<"b", "o", "o", "l", "e", "a", "n">>
T_date == <<"d", "a", "t", "e">>
T_phone == <<"p", "h", "o", "n", "e">>
T_ip == <<"i", "p">>
T_hex == <<"h", "e", "x">>
T_slug == <<"s", "l", "u", "g">>
T_else == <<"e", "l", "s", "e">>

\* dataTypePriority.get(dataType) || 10
dataTypePriority(dataType) ==
    IF dataType \in {T_number, T_string, T_uuid} THEN 20
    ELSE IF dataType \in {T_email, T_version, T_alphanumeric, T_boolean, T_date,
                          T_phone, T_ip, T_hex, T_slug} THEN 15
    ELSE 10

Letters == Range(LowerLetters) \cup Range(UpperLetters)
DigitSet == Range(Digits)
LowerHex == DigitSet \cup Range(<<"a", "b", "c", "d", "e", "f">>)
Whitespace == {" "}
AtSign == "@"

\* One alternative of the octet group of the ip expression
IsOctet(s) ==
    /\ Len(s) \in 1..3
    /\ \A i \in 1..Len(s) : s[i] \in DigitSet
    /\ Len(s) = 3 =>
         \/ s[1] = "1"
         \/ s[1] = "2" /\ s[2] \in Range(<<"0", "1", "2", "3", "4">>)
         \/ s[1] = "2" /\ s[2] = "5" /\ s[3] \in Range(<<"0", "1", "2", "3", "4", "5">>)

\* The hyphen-separated groups g have the given lengths and are all in class
GroupsMatch(g, lengths, class) ==
    /\ Len(g) = Len(lengths)
    /\ \A i \in 1..Len(g) : Len(g[i]) = lengths[i] /\ AllIn(g[i], class)

HyphenGroups(s, lengths, class) ==
    GroupsMatch(Split(s, "-"), lengths, class)

\* /^v\d+$/
IsVersion(s) ==
    Len(s) >= 2 /\ s[1] = "v" /\ AllIn(Tail(s), DigitSet)

\* /^[^\s@]+@[^\s@]+\.[^\s@]+$/
IsEmail(s) ==
    /\ \A i \in 1..Len(s) : s[i] \notin Whitespace
    /\ Cardinality({i \in 1..Len(s) : s[i] = AtSign}) = 1
    /\ \E a \in 2..Len(s), d \in 3..(Len(s) - 1) :
           s[a] = AtSign /\ s[d] = "." /\ d > a + 1

\* /^\+?\d{1,15}$/
IsPhoneDigits(digits) ==
    Len(digits) \in 1..15 /\ AllIn(digits, DigitSet)

IsPhone(s) ==
    IsPhoneDigits(IF Len(s) > 0 /\ s[1] = "+" THEN Tail(s) ELSE s)

\* The four octets of the ip expression
AreOctets(o) ==
    Len(o) = 4 /\ \A i \in 1..4 : IsOctet(o[i])

\* /^[a-z0-9]+(?:-[a-z0-9]+)*$/
AreSlugGroups(g) ==
    \A i \in 1..Len(g) : AllIn(g[i], Range(LowerLetters) \cup DigitSet)

validateDataType(segment, dataType) ==
    IF dataType = T_number THEN AllIn(segment, DigitSet)
    ELSE IF dataType = T_string THEN AllIn(segment, Letters)
    ELSE IF dataType = T_alphanumeric THEN AllIn(segment, Letters \cup DigitSet)
    ELSE IF dataType = T_boolean THEN segment \in {<<"t", "r", "u", "e">>, <<"f", "a", "l", "s", "e">>}
    ELSE IF dataType = T_version THEN IsVersion(segment)
    ELSE IF dataType = T_uuid THEN HyphenGroups(segment, <<8, 4, 4, 4, 12>>, LowerHex)
    ELSE IF dataType = T_date THEN HyphenGroups(segment, <<4, 2, 2>>, DigitSet)
    ELSE IF dataType = T_email THEN IsEmail(segment)
    ELSE IF dataType = T_phone THEN IsPhone(segment)
    ELSE IF dataType = T_ip THEN AreOctets(Split(segment, "."))
    ELSE IF dataType = T_hex THEN AllIn(segment, DigitSet \cup Range(<<"a", "b", "c", "d", "e", "f", "A", "B", "C", "D", "E", "F">>))
    ELSE IF dataType = T_slug THEN AreSlugGroups(Split(segment, "-"))
    ELSE IF dataType = T_else THEN AllIn(segment, Letters)
    ELSE TRUE

Rejected == [score |-> -1, dataTypes |-> EmptyMap, params |-> EmptyMap]

\* A typed segment accepted whether or not its name and its type are given
typedSegmentAnyName(param, dataType, filePart, acc) ==
    IF ~validateDataType(filePart, dataType) THEN Rejected
    ELSE [score |-> acc.score + dataTypePriority(dataType),
          dataTypes |-> ObjSet(acc.dataTypes, param, dataType),
          params |-> ObjSet(acc.params, param, filePart)]

\* A typed segment accepted without its type check
typedSegmentUnvalidated(param, dataType, filePart, acc) ==
    IF Len(param) = 0 \/ Len(dataType) = 0 THEN Rejected
    ELSE [score |-> acc.score + dataTypePriority(dataType),
          dataTypes |-> ObjSet(acc.dataTypes, param, dataType),
          params |-> ObjSet(acc.params, param, filePart)]

\* A typed segment [:param=dataType] of the pattern against a path segment
typedSegment(param, dataType, filePart, acc) ==
    IF Len(param) = 0 \/ Len(dataType) = 0 THEN Rejected
    ELSE IF ~validateDataType(filePart, dataType) THEN Rejected
    ELSE [score |-> acc.score + dataTypePriority(dataType),
          dataTypes |-> ObjSet(acc.dataTypes, param, dataType),
          params |-> ObjSet(acc.params, param, filePart)]

\* const [param, dataType] = insideBrackets.split('=')
bracketSegment(pieces, filePart, acc) ==
    typedSegment(pieces[1], IF Len(pieces) >= 2 THEN pieces[2] ELSE <<>>, filePart, acc)

\* An untyped segment :param
genericSegment(param, filePart, acc) ==
    IF Len(param) = 0 THEN Rejected
    ELSE [score |-> acc.score + 10,
          dataTypes |-> ObjSet(acc.dataTypes, param, NullType),
          params |-> ObjSet(acc.params, param, filePart)]

\* One iteration of the loop of matchPattern: the score and the maps after the
\* segment, or the rejection
matchSegment(patternPart, filePart, acc) ==
    IF StartsWith(patternPart, <<"[", ":">>) /\ EndsWith(patternPart, <<"]">>)
    THEN bracketSegment(Split(SubSeq(patternPart, 3, Len(patternPart) - 1), "="),
                        filePart, acc)
    ELSE IF StartsWith(patternPart, <<":">>)
    THEN genericSegment(Tail(patternPart), filePart, acc)
    ELSE IF patternPart = filePart
    THEN [acc EXCEPT !.score = @ + 20]
    ELSE IF patternPart = <<":", "e", "l", "s", "e">>
    THEN [acc EXCEPT !.score = @ + 5, !.dataTypes = ObjSet(@, T_else, NullType)]
    ELSE Rejected

\* The loop of matchPattern from segment i on; a rejection ends it
RECURSIVE matchPatternFrom(_, _, _, _)
matchPatternFrom(fileParts, patternParts, i, acc) ==
    IF i > Len(patternParts) \/ acc.score < 0 THEN acc
    ELSE matchPatternFrom(fileParts, patternParts, i + 1,
                          matchSegment(patternParts[i], fileParts[i], acc))

matchPattern(fileParts, patternParts) ==
    matchPatternFrom(fileParts, patternParts, 1,
                     [score |-> 0, dataTypes |-> EmptyMap, params |-> EmptyMap])

\* One segment of buildMappedPattern
MappedPart(part) ==
    IF StartsWith(part, <<"[", ":">>) /\ EndsWith(part, <<"]">>)
    THEN <<":">> \o Split(SubSeq(part, 3, Len(part) - 1), "=")[1]
    ELSE part

buildMappedPattern(patternParts) ==
    Join([i \in 1..Len(patternParts) |-> MappedPart(patternParts[i])], "/")

\* `:${key}` or `[:${key}=${dataType}]`
KeyText(key, dataType) ==
    IF dataType = NullType
    THEN <<":">> \o key
    ELSE <<"[", ":">> \o key \o <<"=">> \o dataType \o <<"]">>

\* dataTypes.get(key), as a template literal prints it
TypeOf(key, dataTypes) ==
    IF key \in DOMAIN dataTypes THEN dataTypes[key] ELSE UndefinedText

\* One segment of buildRequiredKey
RequiredPart(segment, dataTypes) ==
    IF StartsWith(segment, <<":">>)
    THEN KeyText(Tail(segment), TypeOf(Tail(segment), dataTypes))
    ELSE segment

RequiredParts(segments, dataTypes) ==
    [i \in 1..Len(segments) |-> RequiredPart(segments[i], dataTypes)]

buildRequiredKey(pattern, dataTypes) ==
    Join(RequiredParts(Split(pattern, "/"), dataTypes), "/")

\* The best candidate before the forEach, with a score below a rejection's
NoBestBelowRejected ==
    [found |-> FALSE, bestMatch |-> <<>>, highestScore |-> -2,
     bestDataTypes |-> EmptyMap, bestParams |-> EmptyMap]

NoBest ==
    [found |-> FALSE, bestMatch |-> <<>>, highestScore |-> -1,
     bestDataTypes |-> EmptyMap, bestParams |-> EmptyMap]

\* A candidate replacing the best one on an equal score
BetterOrEqual(best, patternParts, m) ==
    IF m.score >= best.highestScore
    THEN [found |-> TRUE,
          bestMatch |-> buildMappedPattern(patternParts),
          highestScore |-> m.score,
          bestDataTypes |-> m.dataTypes,
          bestParams |-> m.params]
    ELSE best

\* if (score > highestScore) { ... }
Better(best, patternParts, m) ==
    IF m.score > best.highestScore
    THEN [found |-> TRUE,
          bestMatch |-> buildMappedPattern(patternParts),
          highestScore |-> m.score,
          bestDataTypes |-> m.dataTypes,
          bestParams |-> m.params]
    ELSE best

\* A pattern scored whenever it has no more segments than the path
CandidateNotLonger(best, fileParts, patternParts) ==
    IF Len(fileParts) < Len(patternParts) THEN best
    ELSE Better(best, patternParts, matchPattern(fileParts, patternParts))

\* One pattern of the forEach, given the best candidate so far
Candidate(best, fileParts, patternParts) ==
    IF Len(fileParts) # Len(patternParts) THEN best
    ELSE Better(best, patternParts, matchPattern(fileParts, patternParts))

\* The forEach over the patterns: the best candidate after the first n patterns
RECURSIVE BestAfter(_, _, _)
BestAfter(file, patterns, n) ==
    IF n = 0 THEN NoBest
    ELSE Candidate(BestAfter(file, patterns, n - 1),
                   FilterBoolean(Split(file, "/")),
                   FilterBoolean(Split(patterns[n], "/")))

\* The mapping stored for the file, given the best candidate
Mapping(file, best) ==
    IF best.found /\ Len(best.bestMatch) > 0
    THEN [pattern |-> best.bestMatch,
          dataTypes |-> best.bestDataTypes,
          required_key |-> buildRequiredKey(best.bestMatch, best.bestDataTypes),
          params |-> best.bestParams]
    ELSE [pattern |-> file,
          dataTypes |-> EmptyMap,
          required_key |-> file,
          params |-> EmptyMap]

\* matchURLToPatterns([file], patterns).get(file)
matchURLToPatterns(file, patterns) ==
    Mapping(file, BestAfter(file, patterns, Len(patterns)))

-----------------------------------------------------------------------------
(* Route table and middleware registration (lib/route.js, class SapixRoutes) *)

GET == <<"G", "E", "T">>
POST == <<"P", "O", "S", "T">>

\* A route registered without an inline handler, and every other absent value
Undefined == "undefined"

\* Object.keys(table): own keys in insertion order (no key of the model is an
\* array index, which JavaScript would list first)
Keys(table) ==
    [i \in 1..Len(table) |-> table[i].key]

\* table.hasOwnProperty(key)
HasOwnProperty(table, key) ==
    \E i \in 1..Len(table) : table[i].key = key

\* table[key]
Lookup(table, key) ==
    IF HasOwnProperty(table, key)
    THEN table[CHOOSE i \in 1..Len(table) : table[i].key = key].handler
    ELSE Undefined

\* table[key] = handler: an existing key keeps its position
Assign(table, key, handler) ==
    IF HasOwnProperty(table, key)
    THEN [i \in 1..Len(table) |->
            IF table[i].key = key THEN [key |-> key, handler |-> handler] ELSE table[i]]
    ELSE Append(table, [key |-> key, handler |-> handler])

\* The key addRoute registers `path` under, given the active prefix
proper_route_keyOfRawPath(prefix, path) ==
    LET k == prefix \o path
    IN  IF Len(k) <= 0 THEN <<"/">> ELSE k

proper_route_key(prefix, path) ==
    LET k == prefix \o StripTrailingSlashes(path)
    IN  IF Len(k) <= 0 THEN <<"/">> ELSE k

\* this.routes after addRoute(method, path, handler)
addRoute(rts, prefix, method, path, handler) ==
    LET m == ToUpperCase(method)
        table == IF m \in DOMAIN rts THEN rts[m] ELSE <<>>
    IN  ObjSet(rts, m, Assign(table, proper_route_key(prefix, path), handler))

\* A JavaScript value that is either a string or an array of strings
Str(s) == [str |-> TRUE, v |-> <<s>>]
Arr(a) == [str |-> FALSE, v |-> a]

\* value.includes(x): substring test on a string, membership on an array
Includes(value, x) ==
    IF value.str
    THEN StringIncludes(value.v[1], x)
    ELSE \E i \in 1..Len(value.v) : value.v[i] = x

ALL == <<"a", "l", "l">>
NONE == <<"n", "o", "n", "e">>
HTTPS == <<"H", "T", "T", "P", "S">>

\* The first comment of a callback's source: absent, or the comma-separated
\* words that follow its @method and @secure directives (none when the
\* directive is missing)
NoComment == [present |-> FALSE, method |-> <<>>, secure |-> <<>>]
Comment(method, secure) == [present |-> TRUE, method |-> method, secure |-> secure]

extractMethod(comment) ==
    IF Len(comment.method) > 0
    THEN [i \in 1..Len(comment.method) |-> ToUpperCase(comment.method[i])]
    ELSE <<ALL>>

extractSecure(comment) ==
    IF Len(comment.secure) > 0 THEN comment.secure ELSE <<NONE>>

\* The entry tap() pushes for tap(route, callback) (withRoute) or tap(callback);
\* the callback is identified by the entry's index
MiddlewareEntry(withRoute, route, comment) ==
    [route |-> IF withRoute THEN route ELSE <<"/">>,
     allowedMethods |-> IF comment.present THEN Arr(extractMethod(comment)) ELSE Str(ALL),
     securityOptions |-> IF comment.present THEN Arr(extractSecure(comment)) ELSE Str(NONE)]


-----------------------------------------------------------------------------
(* Dispatcher (SapixRoutes.routeHandle, SapixRoutes.executeMiddlewares) *)

\* maxSize of the shared cache instance (lib/globals.mjs)
CacheInstanceMaxSize == 1000

\* The default ttl of Cache.set
DefaultTTL == 86400000

\* A handler key that leaves the method out
HandlerKeyOfPattern(pattern, method) ==
    <<"h", "a", "n", "d", "l", "e", "r", "_">> \o pattern

\* hasher.hash(`handler_${pattern}_${method}`): the digest is taken to be
\* collision-free, so the hashed text stands for it
HandlerKey(pattern, method) ==
    <<"h", "a", "n", "d", "l", "e", "r", "_">> \o pattern \o <<"_">> \o method

\* The file FileFunctionFetcher("sapix_api", `${pattern}/${method.toLowerCase()}`) imports
HandlerFile(pattern, method) ==
    pattern \o <<"/">> \o ToLowerCase(method)

\* handler.fetchFunction(): the default export, nothing when the file is absent,
\* an error when the module has no default function
fetchFunction(files, file) ==
    IF file \notin DOMAIN files THEN [threw |-> FALSE, fn |-> Undefined]
    ELSE IF files[file] = "function" THEN [threw |-> FALSE, fn |-> "external"]
    ELSE [threw |-> TRUE, fn |-> Undefined]

NoMatch ==
    [pattern |-> <<>>, dataTypes |-> EmptyMap, required_key |-> <<>>, params |-> EmptyMap]

\* `/${required_key}` as routeHandle forms it (lines 331-335 and 355-359)
TableKey(routePath) ==
    <<"/">> \o (IF routePath.required_key = <<"/">> THEN <<>> ELSE routePath.required_key)

\* The state of one request: where routeHandle stands, its locals, what it did
\* to the response, how often each callback was invoked and called next for it,
\* and the order in which that happened
NewRequest ==
    [pc |-> "idle",
     method |-> <<>>, url |-> <<>>, secure |-> FALSE,
     routePath |-> NoMatch,
     routeFunctionHandler |-> Undefined,
     statusCode |-> 200, body |-> "", ended |-> FALSE,
     invoked |-> [i \in 1..MaxMiddlewares |-> 0],
     nexts |-> [i \in 1..MaxMiddlewares |-> 0],
     log |-> <<>>,
     handlerCalls |-> 0,
     calledHandler |-> Undefined,
     calledParams |-> EmptyMap,
     calledArgs |-> <<>>,
     endedBeforeHandler |-> FALSE]

LogEvent(e, i) ==
    [e |-> e, i |-> i]

\* this.routes[method] is truthy
HasRoutesForGetOnly(rts, method) ==
    method \in DOMAIN rts /\ method = GET

HasRoutes(rts, method) ==
    method \in DOMAIN rts

\* The shared cache as one value, for the calls routeHandle makes in a row
TheCache ==
    [map |-> _cache, timers |-> timers, events |-> <<>>]

\* The cache after a call that returned g or s, its events added to those of c
AfterGet(c, g) ==
    [cache |-> [map |-> g.map, timers |-> c.timers, events |-> c.events \o g.events],
     hit |-> g.hit]

AfterSet(c, s) ==
    [map |-> s.map, timers |-> s.timers, events |-> c.events \o s.events]

cacheGet(c, key) ==
    AfterGet(c, CacheGet(c.map, now, key))

cacheSet(c, key, value) ==
    AfterSet(c, CacheSet(c.map, _maxSize, c.timers, now, key, value, DefaultTTL))

\* Whether the entry's callback is invoked for the request: lines 195-220
isUrlMatching(mw, rq) ==
    StartsWith(rq.url, mw.route)

isMethodAllowed(mw, rq) ==
    Includes(mw.allowedMethods, rq.method) \/ Includes(mw.allowedMethods, ALL)

SkippedIgnoringHTTPS(mw, rq) ==
    \/ ~isUrlMatching(mw, rq) \/ ~isMethodAllowed(mw, rq)
    \/ ~StartsWith(rq.url, mw.route)

Skipped(mw, rq) ==
    \/ ~isUrlMatching(mw, rq) \/ ~isMethodAllowed(mw, rq)
    \/ Includes(mw.securityOptions, HTTPS) /\ ~rq.secure
    \/ ~StartsWith(rq.url, mw.route)

\* The argument list of the call in final_handler, whatever the handler is
Arguments ==
    <<"response", "request", "query", "routePathParameters", "body">>

\* finalHandler(): the resolved handler is called with the resolved params
finalHandler(rq) ==
    [rq EXCEPT !.handlerCalls = @ + 1,
               !.log = Append(@, LogEvent("handler", 0)),
               !.calledHandler = rq.routeFunctionHandler,
               !.calledParams = rq.routePath.params,
               !.calledArgs = Arguments,
               !.endedBeforeHandler = @ \/ rq.ended]

\* How often the callbacks of the request called next() so far
NextCalls(rq) ==
    Len(SelectSeq(rq.log, LAMBDA ev : ev.e = "next"))

\* The callback of entry `index` calls the next() it holds
CallNext(rq, index) ==
    [rq EXCEPT !.nexts[index] = @ + 1,
               !.log = Append(@, LogEvent("next", index))]

\* The index that next() of entry `index` resumes the chain at: () => execute(index + 1)
ContinuationSkipsOne(index) ==
    index + 2

Continuation(index) ==
    index + 1

\* The callback of entry `index` is called (line 223)
Called(rq, index) ==
    [rq EXCEPT !.invoked[index] = @ + 1,
               !.log = Append(@, LogEvent("call", index))]

\* Whether the callback calls next() before it returns: the callbacks whose
\* index is in `sync` do, any other returns holding it
CallsNextNow(rq, index, sync) ==
    index \in sync /\ NextCalls(rq) < MaxNextCalls

\* The call of the callback of entry `index`: the request after it, and whether
\* the chain goes on
InvokeThenFallThrough(rq, index, sync) ==
    [rq |-> Called(rq, index), next |-> TRUE]

InvokeDroppingNext(rq, index, sync) ==
    IF CallsNextNow(rq, index, sync)
    THEN [rq |-> CallNext(Called(rq, index), index), next |-> FALSE]
    ELSE [rq |-> Called(rq, index), next |-> FALSE]

Invoke(rq, index, sync) ==
    IF CallsNextNow(rq, index, sync)
    THEN [rq |-> CallNext(Called(rq, index), index), next |-> TRUE]
    ELSE [rq |-> Called(rq, index), next |-> FALSE]

\* execute(index) of executeMiddlewares, entries counted from 1; `called` is
\* the outcome of the callback's call
RECURSIVE execute(_, _, _, _)
AfterCallback(mws, called, index, sync) ==
    IF called.next
    THEN execute(mws, called.rq, Continuation(index), sync)
    ELSE called.rq

execute(mws, rq, index, sync) ==
    IF index <= Len(mws)
    THEN IF Skipped(mws[index], rq)
         THEN execute(mws, rq, index + 1, sync)
         ELSE AfterCallback(mws, Invoke(rq, index, sync), index, sync)
    ELSE finalHandler(rq)

\* Lines 380-399: no content, or the middleware chain; then res.end()
Ended(rq) ==
    [rq EXCEPT !.ended = TRUE, !.pc = "done"]

\* A dispatch that runs the chain before it looks at the handler
DispatchChainFirst(mws, rq, sync) ==
    Ended(IF rq.routeFunctionHandler = Undefined
          THEN [execute(mws, rq, 1, sync) EXCEPT !.statusCode = 204]
          ELSE execute(mws, rq, 1, sync))

Dispatch(mws, rq, sync) ==
    Ended(IF rq.routeFunctionHandler = Undefined
          THEN [rq EXCEPT !.statusCode = 204]
          ELSE execute(mws, rq, 1, sync))

\* Lines 330-339: the matcher's result, cached when its key is in the table
Matched(c, url, routePath, mentioned) ==
    [cache |-> IF mentioned THEN cacheSet(c, url, routePath) ELSE c,
     routePath |-> routePath,
     doesItEverMentioned |-> mentioned]

Mentioned(table, c, url, routePath) ==
    Matched(c, url, routePath, HasOwnProperty(table, TableKey(routePath)))

\* Lines 326-340, given what cache.get(url) returned
RouteAfterGet(table, c, rq, got) ==
    IF got.hit
    THEN [cache |-> got.cache, routePath |-> MapGet(c.map, rq.url).value,
          doesItEverMentioned |-> TRUE]
    ELSE Mentioned(table, got.cache, rq.url,
                   matchURLToPatterns(Split(rq.url, "?")[1], Keys(table)))

\* Lines 326-346: the match result, from the cache or from the matcher
ResolveRoute(rts, c, rq) ==
    RouteAfterGet(rts[rq.method], c, rq, cacheGet(c, rq.url))

\* Lines 350-360, given what cache.get(key) returned
HandlerAfterGet(rts, c, rq, key, got) ==
    IF got.hit
    THEN [cache |-> got.cache, handler |-> MapGet(c.map, key).value, cached |-> TRUE]
    ELSE [cache |-> got.cache,
          handler |-> Lookup(rts[rq.method], TableKey(rq.routePath)),
          cached |-> FALSE]

HandlerWithKey(rts, c, rq, key) ==
    HandlerAfterGet(rts, c, rq, key, cacheGet(c, key))

\* Lines 348-360: the handler, from the cache or from the route table
ResolveHandler(rts, c, rq) ==
    HandlerWithKey(rts, c, rq, HandlerKey(rq.routePath.pattern, rq.method))

-----------------------------------------------------------------------------
(* Inputs of the router specifications *)

RequestIds == {1, 2}

H1 == "h1"
H2 == "h2"

ProductNumber == <<"/", "p", "/", "[", ":", "i", "d", "=", "n", "u", "m", "b", "e", "r", "]">>
ProductString == <<"/", "p", "/", "[", ":", "i", "d", "=", "s", "t", "r", "i", "n", "g", "]">>

\* addRoute calls: a typed route with an inline handler, its sibling of another
\* type without one, and a route of another method
RouteDefs ==
    {[method |-> GET, path |-> ProductNumber, handler |-> H1],
     [method |-> GET, path |-> ProductString, handler |-> Undefined],
     [method |-> POST, path |-> ProductString, handler |-> H2]}

Requests ==
    {[method |-> GET, url |-> <<"/", "p", "/", "1">>, secure |-> FALSE],
     [method |-> GET, url |-> <<"/", "p", "/", "x">>, secure |-> FALSE],
     [method |-> POST, url |-> <<"/", "p", "/", "1">>, secure |-> FALSE]}

\* The handler files under sapix_api/: none, one with a default function, one
\* without, and one for another method
NoFiles == [f \in {} |-> "function"]

FileSystems ==
    {NoFiles,
     [f \in {<<"p", "/", ":", "i", "d", "/", "g", "e", "t">>} |-> "function"],
     [f \in {<<"p", "/", ":", "i", "d", "/", "g", "e", "t">>} |-> "nodefault"],
     [f \in {<<"p", "/", ":", "i", "d", "/", "p", "o", "s", "t">>} |-> "function"]}

\* tap calls: a global callback, one scoped to /secure and POST, one for GET and
\* POST over HTTPS only
TapCalls ==
    {[withRoute |-> FALSE, route |-> <<>>, comment |-> NoComment],
     [withRoute |-> TRUE, route |-> <<"/", "s", "e", "c", "u", "r", "e">>,
      comment |-> Comment(<<<<"p", "o", "s", "t">>>>, <<>>)],
     [withRoute |-> FALSE, route |-> <<>>,
      comment |-> Comment(<<<<"g", "e", "t">>, <<"p", "o", "s", "t">>>>, <<HTTPS>>)]}

MwRequests ==
    {[method |-> GET, url |-> <<"/", "s", "e", "c", "u", "r", "e">>, secure |-> FALSE],
     [method |-> POST, url |-> <<"/", "s", "e", "c", "u", "r", "e">>, secure |-> TRUE],
     [method |-> GET, url |-> <<"/">>, secure |-> FALSE]}

\* The routes of the middleware specification: get('/', h1), get('/secure', h1)
\* and post('/secure') with its handler in sapix_api/secure/post.mjs
MwRoutes ==
    addRoute(addRoute(addRoute(EmptyMap, <<>>, GET, <<"/">>, H1),
                      <<>>, GET, <<"/", "s", "e", "c", "u", "r", "e">>, H1),
             <<>>, POST, <<"/", "s", "e", "c", "u", "r", "e">>, Undefined)

MwFiles == [f \in {<<"s", "e", "c", "u", "r", "e", "/", "p", "o", "s", "t">>} |-> "function"]

-----------------------------------------------------------------------------
(* SpecCache: a Cache under arbitrary use *)

\* hash has not been called
InitNoHash ==
    /\ heap = <<>>
    /\ digests = <<>>

\* matchURLToPatterns has not been called
InitNoMatch ==
    /\ matchFile = <<>>
    /\ matchPatterns = <<>>
    /\ mappings = EmptyMap
    /\ InitNoHash

InitCache ==
    /\ _cache = <<>>
    /\ _maxSize \in CacheSizes
    /\ cleanupTimer = TRUE
    /\ timers = {}
    /\ now = 0
    /\ emitted = <<>>
    /\ recency = <<>>
    /\ overwrote = FALSE
    /\ fired = ""
    /\ routes = EmptyMap
    /\ prefix_route = <<>>
    /\ middlewares = <<>>
    /\ sapix_api = NoFiles
    /\ req = [r \in RequestIds |-> NewRequest]
    /\ InitNoMatch

\* The timers that can fire while the clock is observed: one due after MaxTime
\* never fires in the behaviours explored and is not kept
Pending(tm) ==
    {x \in tm : x.due <= MaxTime}

Set(key, value, ttl) ==
    LET r == CacheSet(_cache, _maxSize, timers, now, key, value, ttl)
    IN  /\ Cardinality(Pending(r.timers)) <= MaxTimers
        /\ _cache' = r.map
        /\ timers' = Pending(r.timers)
        /\ emitted' = r.events
        /\ recency' = Stored(Touch(recency, key), r.map)
        /\ overwrote' = MapHas(_cache, key)
        /\ fired' = ""
        /\ UNCHANGED <<_maxSize, cleanupTimer, now>>
        /\ UNCHANGED <<routerVars, matchVars, hashVars>>

Get(key) ==
    LET r == CacheGet(_cache, now, key)
    IN  /\ _cache' = r.map
        /\ emitted' = r.events
        /\ recency' = Stored(IF r.hit THEN Touch(recency, key) ELSE recency, r.map)
        /\ overwrote' = FALSE
        /\ fired' = ""
        /\ UNCHANGED <<_maxSize, cleanupTimer, timers, now>>
        /\ UNCHANGED <<routerVars, matchVars, hashVars>>

Delete(key) ==
    LET r == CacheDelete(_cache, key)
    IN  /\ _cache' = r.map
        /\ emitted' = r.events
        /\ recency' = Stored(recency, r.map)
        /\ overwrote' = FALSE
        /\ fired' = ""
        /\ UNCHANGED <<_maxSize, cleanupTimer, timers, now>>
        /\ UNCHANGED <<routerVars, matchVars, hashVars>>

Clear ==
    LET r == CacheClear(_cache)
    IN  /\ _cache' = r.map
        /\ emitted' = r.events
        /\ recency' = Stored(recency, r.map)
        /\ overwrote' = FALSE
        /\ fired' = ""
        /\ UNCHANGED <<_maxSize, cleanupTimer, timers, now>>
        /\ UNCHANGED <<routerVars, matchVars, hashVars>>

Stop ==
    LET r == CacheClear(_cache)
    IN  /\ cleanupTimer' = FALSE
        /\ _cache' = r.map
        /\ emitted' = r.events
        /\ recency' = Stored(recency, r.map)
        /\ overwrote' = FALSE
        /\ fired' = ""
        /\ UNCHANGED <<_maxSize, timers, now>>
        /\ UNCHANGED <<routerVars, matchVars, hashVars>>

Sweep ==
    LET r == SweepExpired(_cache, now)
    IN  /\ cleanupTimer
        /\ _cache' = r.map
        /\ emitted' = r.events
        /\ recency' = Stored(recency, r.map)
        /\ overwrote' = FALSE
        /\ fired' = ""
        /\ UNCHANGED <<_maxSize, cleanupTimer, timers, now>>
        /\ UNCHANGED <<routerVars, matchVars, hashVars>>

TimerFires(tm) ==
    LET r == TimerExpired(_cache, now, tm.key)
    IN  /\ tm.due <= now
        /\ timers' = timers \ {tm}
        /\ _cache' = r.map
        /\ emitted' = r.events
        /\ recency' = Stored(recency, r.map)
        /\ overwrote' = FALSE
        /\ fired' = tm.key
        /\ UNCHANGED <<_maxSize, cleanupTimer, now>>
        /\ UNCHANGED <<routerVars, matchVars, hashVars>>

Tick ==
    /\ now < MaxTime
    /\ now' = now + 1
    /\ emitted' = <<>>
    /\ overwrote' = FALSE
    /\ fired' = ""
    /\ UNCHANGED <<_cache, _maxSize, cleanupTimer, timers, recency>>
    /\ UNCHANGED <<routerVars, matchVars, hashVars>>

NextCache ==
    \/ \E key \in CacheKeys, value \in CacheValues, ttl \in CacheTTLs : Set(key, value, ttl)
    \/ \E key \in CacheKeys : Get(key)
    \/ \E key \in CacheKeys : Delete(key)
    \/ Clear
    \/ Stop
    \/ Sweep
    \/ \E tm \in timers : TimerFires(tm)
    \/ Tick

SpecCache == InitCache /\ [][NextCache]_vars

-----------------------------------------------------------------------------
(* Actions of the router *)

\* The step uses the cache not at all
NoCacheUse ==
    /\ emitted' = <<>>
    /\ UNCHANGED <<_cache, _maxSize, cleanupTimer, timers, now, recency, overwrote, fired>>
    /\ UNCHANGED <<matchVars, hashVars>>

SetCache(c) ==
    /\ _cache' = c.map
    /\ timers' = c.timers
    /\ emitted' = c.events
    /\ UNCHANGED <<_maxSize, cleanupTimer, now, recency, overwrote, fired>>
    /\ UNCHANGED <<matchVars, hashVars>>

\* No routeHandle call is suspended
Quiescent ==
    \A r \in RequestIds : req[r].pc \in {"idle", "done", "failed"}

\* routes.prefix(prefix)
Prefix(prefix) ==
    /\ Quiescent
    /\ prefix_route' = StripTrailingSlashes(prefix)
    /\ UNCHANGED <<cacheVars, matchVars, hashVars, routes, middlewares, sapix_api, req>>

\* routes.get / post / ... (path, handler)
AddRoute(def) ==
    /\ Quiescent
    /\ routes' = addRoute(routes, prefix_route, def.method, def.path, def.handler)
    /\ UNCHANGED <<cacheVars, matchVars, hashVars, prefix_route, middlewares, sapix_api, req>>

\* routes.tap(...), at startup: each tap call of the startup script runs once
Tap(call) ==
    /\ Len(middlewares) < MaxMiddlewares
    /\ MiddlewareEntry(call.withRoute, call.route, call.comment) \notin Range(middlewares)
    /\ \A r \in RequestIds : req[r].pc = "idle"
    /\ middlewares' = Append(middlewares,
                             MiddlewareEntry(call.withRoute, call.route, call.comment))
    /\ UNCHANGED <<cacheVars, matchVars, hashVars, routes, prefix_route, sapix_api, req>>

\* routeHandle(req, res) up to its first await, or to the 404 (lines 309-322, 394-399)
Started(rq, in) ==
    [rq EXCEPT !.method = in.method, !.url = in.url, !.secure = in.secure,
               !.pc = "body"]

NotFound(rq, in) ==
    [rq EXCEPT !.method = in.method, !.url = in.url, !.secure = in.secure,
               !.statusCode = 404, !.body = "Not found",
               !.ended = TRUE, !.pc = "done"]

RouteHandle(r, in) ==
    /\ req[r].pc = "idle"
    /\ req' = [req EXCEPT ![r] = IF HasRoutes(routes, in.method)
                                 THEN Started(@, in)
                                 ELSE NotFound(@, in)]
    /\ NoCacheUse
    /\ UNCHANGED <<routes, prefix_route, middlewares, sapix_api>>

\* request._getBody() rejects: routeHandle ends without a response
BodyRejected(r) ==
    /\ req[r].pc = "body"
    /\ req' = [req EXCEPT ![r].pc = "failed"]
    /\ NoCacheUse
    /\ UNCHANGED <<routes, prefix_route, middlewares, sapix_api>>

\* Lines 342-346: 501
NotImplemented(rq, routePath) ==
    [rq EXCEPT !.routePath = routePath,
               !.statusCode = 501, !.body = "You never implemented it",
               !.ended = TRUE, !.pc = "done"]

\* The request with its resolved route and handler
Resolved(rq, routePath, handler) ==
    [rq EXCEPT !.routePath = routePath, !.routeFunctionHandler = handler]

\* Lines 374-377: the handler found is cached, unless it came from the cache
CacheHandler(c, rq, handler, cached) ==
    IF cached \/ handler = Undefined
    THEN c
    ELSE cacheSet(c, HandlerKey(rq.routePath.pattern, rq.method), handler)

\* Lines 353-399, given the handler the cache or the table holds: on to the
\* loader, or to the dispatch
WithHandler(r, sync, rq, rh) ==
    IF rh.handler = Undefined
    THEN /\ req' = [req EXCEPT ![r] = [rq EXCEPT !.pc = "fetch"]]
         /\ SetCache(rh.cache)
    ELSE /\ req' = [req EXCEPT ![r] =
                      Dispatch(middlewares, Resolved(rq, rq.routePath, rh.handler), sync)]
         /\ SetCache(CacheHandler(rh.cache, rq, rh.handler, rh.cached))

\* Lines 342-399, given the resolved route
WithRoute(r, sync, rr) ==
    IF ~rr.doesItEverMentioned
    THEN /\ req' = [req EXCEPT ![r] = NotImplemented(@, rr.routePath)]
         /\ SetCache(rr.cache)
    ELSE WithHandler(r, sync, Resolved(req[r], rr.routePath, Undefined),
                     ResolveHandler(routes, rr.cache,
                                    Resolved(req[r], rr.routePath, Undefined)))

\* routeHandle from the body to the 501, to the second await or to its end
\* (lines 324-399)
BodyRead(r, sync) ==
    /\ req[r].pc = "body"
    /\ WithRoute(r, sync, ResolveRoute(routes, TheCache, req[r]))
    /\ UNCHANGED <<routes, prefix_route, middlewares, sapix_api>>

\* A routeHandle that lets the loader's error out instead of catching it
WithFetchedRethrowing(r, sync, rq, f) ==
    IF f.threw
    THEN /\ req' = [req EXCEPT ![r] = [rq EXCEPT !.pc = "failed"]]
         /\ NoCacheUse
    ELSE /\ req' = [req EXCEPT ![r] =
                      Dispatch(middlewares, Resolved(rq, rq.routePath, f.fn), sync)]
         /\ SetCache(CacheHandler(TheCache, rq, f.fn, FALSE))

\* Lines 368-399, given what the loader returned
WithFetched(r, sync, rq, f) ==
    /\ req' = [req EXCEPT ![r] =
                 Dispatch(middlewares, Resolved(rq, rq.routePath, f.fn), sync)]
    /\ SetCache(CacheHandler(TheCache, rq, f.fn, FALSE))

\* routeHandle from handler.fetchFunction() to its end (lines 368-399)
FetchReturns(r, sync) ==
    /\ req[r].pc = "fetch"
    /\ WithFetched(r, sync, req[r],
                   fetchFunction(sapix_api,
                                 HandlerFile(req[r].routePath.pattern, req[r].method)))
    /\ UNCHANGED <<routes, prefix_route, middlewares, sapix_api>>

\* The callback of entry `index` calls the next() it was given, after it returned
MiddlewareNext(r, index, sync) ==
    /\ req[r].pc = "done"
    /\ req[r].invoked[index] > 0
    /\ NextCalls(req[r]) < MaxNextCalls
    /\ req' = [req EXCEPT ![r] =
                 execute(middlewares, CallNext(@, index), Continuation(index), sync)]
    /\ NoCacheUse
    /\ UNCHANGED <<routes, prefix_route, middlewares, sapix_api>>

Syncs == SUBSET (1..MaxMiddlewares)

-----------------------------------------------------------------------------
(* Spec: registration of routes and the resolution of requests, with one
   global middleware *)

InitSharedCache ==
    /\ _cache = <<>>
    /\ _maxSize = CacheInstanceMaxSize
    /\ cleanupTimer = TRUE
    /\ timers = {}
    /\ now = 0
    /\ emitted = <<>>
    /\ recency = <<>>
    /\ overwrote = FALSE
    /\ fired = ""

Init ==
    /\ InitSharedCache
    /\ routes = EmptyMap
    /\ prefix_route = <<>>
    /\ middlewares = <<MiddlewareEntry(FALSE, <<>>, NoComment)>>
    /\ sapix_api \in FileSystems
    /\ req = [r \in RequestIds |-> NewRequest]
    /\ InitNoMatch

Next ==
    \/ \E def \in RouteDefs : AddRoute(def)
    \/ \E r \in RequestIds, in \in Requests : RouteHandle(r, in)
    \/ \E r \in RequestIds : BodyRejected(r)
    \/ \E r \in RequestIds, sync \in Syncs : BodyRead(r, sync)
    \/ \E r \in RequestIds, sync \in Syncs : FetchReturns(r, sync)
    \/ \E r \in RequestIds, index \in 1..MaxMiddlewares, sync \in Syncs :
          MiddlewareNext(r, index, sync)

Spec == Init /\ [][Next]_vars

-----------------------------------------------------------------------------
(* SpecMw: the middleware chain, over a fixed route table *)

InitMw ==
    /\ InitSharedCache
    /\ routes = MwRoutes
    /\ prefix_route = <<>>
    /\ middlewares = <<>>
    /\ sapix_api = MwFiles
    /\ req = [r \in RequestIds |-> NewRequest]
    /\ InitNoMatch

NextMw ==
    \/ \E call \in TapCalls : Tap(call)
    \/ \E r \in RequestIds, in \in MwRequests : RouteHandle(r, in)
    \/ \E r \in RequestIds : BodyRejected(r)
    \/ \E r \in RequestIds, sync \in Syncs : BodyRead(r, sync)
    \/ \E r \in RequestIds, sync \in Syncs : FetchReturns(r, sync)
    \/ \E r \in RequestIds, index \in 1..MaxMiddlewares, sync \in Syncs :
          MiddlewareNext(r, index, sync)

SpecMw == InitMw /\ [][NextMw]_vars

-----------------------------------------------------------------------------
(* SpecMatch: matchURLToPatterns applied to a path and an ordered pattern list *)

\* The longest pattern list supplied
MaxPatterns == 3

\* Request paths: two segments with a numeric or a lettered value, one
\* segment, the root, a trailing slash, and a first segment no literal matches
PathPool ==
    {<<"/", "p", "/", "1">>, <<"/", "p", "/", "a", "b">>, <<"/", "p">>, <<"/">>, <<"/", "p", "/", "1", "/">>, <<"/", "q", "/", "1">>}

P_number == <<"/", "p", "/", "[", ":", "i", "d", "=", "n", "u", "m", "b", "e", "r", "]">>
P_string == <<"/", "p", "/", "[", ":", "i", "d", "=", "s", "t", "r", "i", "n", "g", "]">>
P_name == <<"/", "p", "/", ":", "i", "d">>
P_else == <<"/", "p", "/", ":", "e", "l", "s", "e">>
P_literal == <<"/", "p", "/", "1">>
P_short == <<"/", "p">>
P_generic == <<"/", ":", "a", "/", ":", "b">>
P_twice == <<"/", "[", ":", "i", "d", "=", "s", "t", "r", "i", "n", "g", "]", "/", "[", ":", "i", "d", "=", "n", "u", "m", "b", "e", "r", "]">>

\* Route patterns, as the keys of a route table: one leading '/', no empty segment
PatternPool ==
    {P_number, P_string, P_name, P_else, P_literal, P_short, P_generic, P_twice}

\* Object.keys(routes[method]): the patterns in registration order, none twice
PatternLists ==
    {l \in UNION {[1..n -> PatternPool] : n \in 0..MaxPatterns} :
        \A i, j \in 1..Len(l) : l[i] = l[j] => i = j}

InitMatch ==
    /\ InitSharedCache
    /\ routes = EmptyMap
    /\ prefix_route = <<>>
    /\ middlewares = <<>>
    /\ sapix_api = NoFiles
    /\ req = [r \in RequestIds |-> NewRequest]
    /\ InitNoHash
    /\ matchFile \in PathPool
    /\ matchPatterns \in PatternLists
    /\ mappings = EmptyMap

\* matchURLToPatterns([file], patterns): mappings.set(file, ...) and the return
Match ==
    /\ mappings' = ObjSet(mappings, matchFile, matchURLToPatterns(matchFile, matchPatterns))
    /\ UNCHANGED <<matchFile, matchPatterns>>
    /\ UNCHANGED <<cacheVars, routerVars, hashVars>>

NextMatch ==
    Match

SpecMatch == InitMatch /\ [][NextMatch]_vars

-----------------------------------------------------------------------------
(* SpecEdge: matchURLToPatterns on malformed and `else`-typed patterns *)

P_noName == <<"/", "p", "/", "[", ":", "=", "n", "u", "m", "b", "e", "r", "]">>
P_noType == <<"/", "p", "/", "[", ":", "i", "d", "]">>
P_emptyType == <<"/", "p", "/", "[", ":", "i", "d", "=", "]">>
P_bareColon == <<"/", "p", "/", ":">>
P_typedElse == <<"/", "p", "/", "[", ":", "i", "d", "=", "e", "l", "s", "e", "]">>

\* Patterns with a malformed dynamic segment after a literal segment
MalformedPatterns ==
    {P_noName, P_noType, P_emptyType, P_bareColon}

EdgePatterns ==
    MalformedPatterns \cup {P_typedElse, P_name, P_literal}

\* Paths of two segments: a number, letters, and a bare colon
EdgePaths ==
    {<<"/", "p", "/", "1">>, <<"/", "p", "/", "a", "b">>, <<"/", "p", "/", ":">>}

EdgeLists ==
    {l \in UNION {[1..n -> EdgePatterns] : n \in 0..MaxPatterns} :
        \A i, j \in 1..Len(l) : l[i] = l[j] => i = j}

InitEdge ==
    /\ InitSharedCache
    /\ routes = EmptyMap
    /\ prefix_route = <<>>
    /\ middlewares = <<>>
    /\ sapix_api = NoFiles
    /\ req = [r \in RequestIds |-> NewRequest]
    /\ InitNoHash
    /\ matchFile \in EdgePaths
    /\ matchPatterns \in EdgeLists
    /\ mappings = EmptyMap

SpecEdge == InitEdge /\ [][NextMatch]_vars

-----------------------------------------------------------------------------
(* Properties of the Cache, checked under SpecCache *)

\* Cache.size()
size ==
    Len(_cache)

\* The step is a call of set(): only set() emits 'set', and it emits it last
SetEvent ==
    emitted'[Len(emitted')]

IsSetStep ==
    Len(emitted') > 0 /\ SetEvent.name = "set"

\* C8: for a Cache constructed with maxSize >= 1, size() never exceeds maxSize,
\* whatever sets, gets, deletes, clears, timer firings and sweeps happened.
C8_SizeNeverExceedsMax ==
    size <= _maxSize

\* A full cache right after a set that had to evict
C8_Witness ==
    /\ size = _maxSize
    /\ Len(emitted) = 2
    /\ emitted[1].name = "evict"
    /\ now > 0

\* C9: a set of a key that is not stored, on a cache holding maxSize entries,
\* removes exactly the least recently used entry (recency counted from sets and
\* successful gets), emits exactly one evict event with that entry's key and
\* value, and leaves every other entry stored with its value.
C9_EvictsExactlyTheLRU ==
    [][(IsSetStep /\ ~MapHas(_cache, SetEvent.key) /\ size = _maxSize) =>
         LET lru == recency[1]
         IN  /\ emitted' = <<Event("evict", lru, MapGet(_cache, lru).value), SetEvent>>
             /\ ~MapHas(_cache', lru)
             /\ Len(_cache') = Len(_cache)
             /\ \A i \in 1..Len(_cache) :
                    _cache[i].key # lru =>
                        /\ MapHas(_cache', _cache[i].key)
                        /\ MapGet(_cache', _cache[i].key) = _cache[i]
      ]_vars

\* A set has just evicted an entry that was not the first one inserted: the
\* first-inserted key is still stored, after the entry that replaced the evicted one
C9_Witness ==
    /\ Len(emitted) = 2
    /\ emitted[1].name = "evict"
    /\ size >= 2
    /\ recency[1] # emitted[1].key
    /\ _cache[size].key = emitted[2].key

\* C10: a set of a key that is already stored evicts nothing and emits no evict
\* event, also when size() = maxSize: the size is unchanged, the other entries
\* keep their values and their relative order, and the key holds the new value
\* as the most recently used entry.
C10_OverwriteEvictsNothing ==
    [][(IsSetStep /\ MapHas(_cache, SetEvent.key)) =>
         /\ emitted' = <<SetEvent>>
         /\ Len(_cache') = Len(_cache)
         /\ MapDelete(_cache', SetEvent.key) = MapDelete(_cache, SetEvent.key)
         /\ _cache'[Len(_cache')].key = SetEvent.key
         /\ _cache'[Len(_cache')].value = SetEvent.value
         /\ recency'[Len(recency')] = SetEvent.key
      ]_vars

\* A stored key of a full cache of two entries has just been overwritten
C10_Witness ==
    /\ overwrote
    /\ size = _maxSize
    /\ size >= 2
    /\ emitted = <<Event("set", _cache[size].key, _cache[size].value)>>

-----------------------------------------------------------------------------
(* Properties of the middleware chain, checked under SpecMw *)

RequiresHTTPS(mw) ==
    Includes(mw.securityOptions, HTTPS)

\* The entry applies to the request: scope prefix, allowed methods, transport
Applies(mw, rq) ==
    /\ StartsWith(rq.url, mw.route)
    /\ Includes(mw.allowedMethods, rq.method) \/ Includes(mw.allowedMethods, ALL)
    /\ ~RequiresHTTPS(mw) \/ rq.secure

\* The entry of tap('/secure', callback) with the comment `@method post`
SecurePostOnly ==
    MiddlewareEntry(TRUE, <<"/", "s", "e", "c", "u", "r", "e">>, Comment(<<<<"p", "o", "s", "t">>>>, <<>>))

NothingInvoked(rq) ==
    /\ \A i \in 1..MaxMiddlewares : rq.invoked[i] = 0
    /\ rq.handlerCalls = 0
    /\ rq.log = <<>>

\* routeHandle reached executeMiddlewares for the request
ReachedChain(rq) ==
    rq.pc = "done" /\ rq.routeFunctionHandler # Undefined

\* C1: a middleware entry's callback is invoked for a request only if the URL
\* starts with the entry's scope prefix, the method is in the entry's allowed
\* methods (or they are 'all'), and the entry does not require HTTPS or the
\* request is secure; so the /secure `@method post` entry is never invoked for
\* GET /secure, and an `@secure HTTPS` entry never for an insecure request.
C1_InvokedOnlyIfApplicable ==
    \A r \in RequestIds : \A i \in 1..Len(middlewares) :
        /\ req[r].invoked[i] > 0 => Applies(middlewares[i], req[r])
        /\ ( /\ middlewares[i] = SecurePostOnly
             /\ req[r].method = GET
             /\ req[r].url = <<"/", "s", "e", "c", "u", "r", "e">> ) => req[r].invoked[i] = 0
        /\ RequiresHTTPS(middlewares[i]) /\ ~req[r].secure => req[r].invoked[i] = 0

\* An HTTPS-only entry was invoked for a secure request and skipped for an
\* insecure one whose handler ran all the same
C1_Witness ==
    \E r1, r2 \in RequestIds : \E i \in 1..Len(middlewares) :
        /\ RequiresHTTPS(middlewares[i])
        /\ req[r1].secure /\ req[r1].invoked[i] > 0
        /\ ~req[r2].secure /\ req[r2].invoked[i] = 0 /\ req[r2].handlerCalls = 1

\* C2: if an invoked callback never calls its next, no later entry is invoked
\* for that request and its route handler is never invoked.
C2_NoNextHaltsChain ==
    \A r \in RequestIds : \A i \in 1..Len(middlewares) :
        (req[r].invoked[i] > 0 /\ req[r].nexts[i] = 0) =>
            /\ \A j \in (i + 1)..Len(middlewares) : req[r].invoked[j] = 0
            /\ req[r].handlerCalls = 0

\* A callback holds its next after routeHandle ended the response, and the
\* entry behind it applies to the request
C2_Witness ==
    \E r \in RequestIds :
        /\ Len(middlewares) = 2
        /\ req[r].ended
        /\ req[r].invoked[1] > 0 /\ req[r].nexts[1] = 0
        /\ Applies(middlewares[2], req[r])

\* C3: for a request that reaches the chain the handler is invoked if every
\* entry that is not skipped calls next (skipped entries do not block, an empty
\* chain invokes it at once); when every invoked callback calls next exactly
\* once, the handler is invoked exactly once, after the last entry.
C3_HandlerRunsWhenAllCallNext ==
    \A r \in RequestIds :
        LET rq == req[r]
            n == Len(middlewares)
        IN  ReachedChain(rq) =>
              /\ (\A i \in 1..n : rq.invoked[i] > 0 => rq.nexts[i] >= 1)
                    => rq.handlerCalls >= 1
              /\ (\A i \in 1..n : rq.invoked[i] > 0 => rq.nexts[i] = 1) =>
                    /\ rq.handlerCalls = 1
                    /\ rq.log[Len(rq.log)] = LogEvent("handler", 0)
                    /\ \A i \in 1..n :
                         rq.invoked[i] = IF Applies(middlewares[i], rq) THEN 1 ELSE 0

\* One entry was skipped, the other called next once, and the handler ran once
C3_Witness ==
    \E r \in RequestIds :
        /\ ReachedChain(req[r])
        /\ Len(middlewares) = 2
        /\ \E i, j \in 1..2 :
             /\ ~Applies(middlewares[i], req[r]) /\ req[r].invoked[i] = 0
             /\ req[r].invoked[j] = 1 /\ req[r].nexts[j] = 1
        /\ req[r].handlerCalls = 1

\* C4: within a request the callbacks are invoked in registration order: entry
\* j is invoked only after every applicable entry i < j, and entry i+1 (or the
\* handler) is considered only after entry i was skipped or called next; this
\* holds for each of several requests whose chains interleave.
C4_RegistrationOrder ==
    \A r \in RequestIds :
        LET rq == req[r]
            log == rq.log
        IN  \A k \in 1..Len(log) :
              LET j == IF log[k].e = "handler" THEN Len(middlewares) + 1 ELSE log[k].i
              IN  log[k].e \in {"call", "handler"} =>
                    /\ \A i \in 1..(j - 1) :
                         Applies(middlewares[i], rq) =>
                            \E h \in 1..(k - 1) : log[h] = LogEvent("call", i)
                    /\ IF k = 1
                       THEN \A i \in 1..(j - 1) : ~Applies(middlewares[i], rq)
                       ELSE /\ log[k - 1].e = "next"
                            /\ log[k - 1].i < j
                            /\ \A i \in (log[k - 1].i + 1)..(j - 1) :
                                 ~Applies(middlewares[i], rq)

\* One request ran both callbacks and its handler while the first callback of
\* the other request still holds its next
C4_Witness ==
    \E r1, r2 \in RequestIds :
        /\ req[r1].log = <<LogEvent("call", 1)>>
        /\ req[r2].log = <<LogEvent("call", 1), LogEvent("next", 1),
                           LogEvent("call", 2), LogEvent("next", 2),
                           LogEvent("handler", 0)>>

-----------------------------------------------------------------------------
(* Properties of routeHandle, checked under Spec *)

\* The step carries the routeHandle call of request r past its body
Resolves(r) ==
    req[r].pc = "body" /\ req'[r].pc \in {"fetch", "done"}

\* What the pattern matcher yields for the request against its method's patterns
FreshMatch(rq) ==
    matchURLToPatterns(Split(rq.url, "?")[1], Keys(routes[rq.method]))

\* C5: when the required key the matcher yields for the request path against
\* the patterns of the request's method is no key of that method's table,
\* routeHandle responds 501 'You never implemented it' and invokes no
\* middleware and no handler, whatever requests were served before.
C5_UnregisteredKeyIs501 ==
    [][\A r \in RequestIds :
         (/\ Resolves(r)
          /\ ~HasOwnProperty(routes[req[r].method], TableKey(FreshMatch(req[r])))) =>
            /\ req'[r].pc = "done"
            /\ req'[r].statusCode = 501
            /\ req'[r].body = "You never implemented it"
            /\ req'[r].ended
            /\ NothingInvoked(req'[r])]_vars

\* POST /p/1 was answered 204 although the matcher yields for it no key of the
\* POST table: its match came from the cache entry of GET /p/1
C5_Diverges ==
    \E r \in RequestIds :
        /\ req[r].pc = "done"
        /\ req[r].method = POST
        /\ req[r].statusCode = 204
        /\ ~HasOwnProperty(routes[POST], TableKey(FreshMatch(req[r])))

\* The step ends the routeHandle call of request r after route resolution
Completes(r) ==
    req[r].pc \in {"body", "fetch"} /\ req'[r].pc = "done"

\* The request's match is registered without an inline handler and the loader
\* finds no handler either
Unwired(rq) ==
    LET table == routes[rq.method]
        key == TableKey(rq.routePath)
    IN  /\ HasOwnProperty(table, key)
        /\ Lookup(table, key) = Undefined
        /\ fetchFunction(sapix_api, HandlerFile(rq.routePath.pattern, rq.method)).fn = Undefined

\* C6: when the matched required key is registered for the method without an
\* inline handler and the loader resolves to none, routeHandle responds 204 with
\* an empty body, invokes no middleware and no handler, and stores nothing under
\* the handler cache key.
C6_UnwiredRouteIs204 ==
    [][\A r \in RequestIds :
         (Completes(r) /\ Unwired(req'[r])) =>
            /\ req'[r].statusCode = 204
            /\ req'[r].body = ""
            /\ req'[r].ended
            /\ NothingInvoked(req'[r])
            /\ ~MapHas(_cache', HandlerKey(req'[r].routePath.pattern, req'[r].method))]_vars

\* GET /p/x matched the route registered without a handler, no handler file
\* exists, and the handler cached for /p/[:id=number] ran the chain for it
C6_Diverges ==
    \E r \in RequestIds :
        /\ req[r].pc = "done"
        /\ req[r].statusCode = 200
        /\ req[r].method \in DOMAIN routes
        /\ Unwired(req[r])
        /\ req[r].routeFunctionHandler = H1
        /\ req[r].invoked[1] > 0

\* C7: routeHandle responds 404 'Not found' exactly when no route was ever
\* registered for the request's method, and then it reads and writes no cache
\* entry and invokes no middleware and no handler.
C7_NotFoundIffNoRoutes ==
    [][\A r \in RequestIds :
         /\ (req[r].pc = "idle" /\ req'[r].pc # "idle") =>
               IF req'[r].method \in DOMAIN routes
               THEN /\ req'[r].pc = "body"
                    /\ req'[r].statusCode # 404
                    /\ ~req'[r].ended
               ELSE /\ req'[r].pc = "done"
                    /\ req'[r].statusCode = 404
                    /\ req'[r].body = "Not found"
                    /\ req'[r].ended
                    /\ _cache' = _cache /\ timers' = timers /\ emitted' = <<>>
                    /\ NothingInvoked(req'[r])
         /\ (req'[r].statusCode = 404 /\ req[r].statusCode # 404) =>
               /\ req[r].pc = "idle"
               /\ req'[r].method \notin DOMAIN routes]_vars

\* A request was answered 404, and a later request of the same method, made
\* after a route was registered for it, reached its handler
C7_Witness ==
    \E r1, r2 \in RequestIds :
        /\ req[r1].statusCode = 404 /\ req[r1].body = "Not found"
        /\ req[r2].method = req[r1].method
        /\ req[r2].handlerCalls = 1

-----------------------------------------------------------------------------
(* Expiry of the cache's entries, checked under SpecCache *)

\* Cache.keys(): the keys of the Map, in insertion order
keys ==
    [i \in 1..Len(_cache) |-> _cache[i].key]

\* The expiry time of the entry has passed at time t
HasExpired(e, t) ==
    e.expiry # Null /\ e.expiry <= t

\* The stored entries whose expiry time has not passed
Live ==
    SelectSeq(_cache, LAMBDA e : ~HasExpired(e, now))

\* C11: once the expiry time of a stored entry has passed, every read treats
\* the entry as absent, whether or not its timer or the sweep has run: get(key)
\* returns absent, keys() does not list the key and size() does not count it.
C11_ExpiredIsAbsentToEveryRead ==
    \A key \in CacheKeys :
        (MapHas(_cache, key) /\ HasExpired(MapGet(_cache, key), now)) =>
            /\ ~CacheGet(_cache, now, key).hit
            /\ key \notin Range(keys)
            /\ size = Len(Live)

\* The expiry time of a stored entry has passed and neither its timer nor a
\* sweep has run: get(key) returns absent, yet keys() lists the key and size()
\* counts the entry
C11_Diverges ==
    \E key \in CacheKeys :
        /\ MapHas(_cache, key)
        /\ HasExpired(MapGet(_cache, key), now)
        /\ [key |-> key, due |-> MapGet(_cache, key).expiry] \in timers
        /\ ~CacheGet(_cache, now, key).hit
        /\ key \in Range(keys)
        /\ size = Len(Live) + 1

\* The events of the step say that the entry of `key` was deleted, cleared,
\* evicted or overwritten
RemovedOnPurpose(key) ==
    \E i \in 1..Len(emitted') :
        /\ emitted'[i].key = key
        /\ emitted'[i].name \in {"delete", "evict", "set"}

\* C12: an entry stored by set(key, value, T) with numeric T at time t is
\* returned by get at every time before t+T unless it was deleted, cleared,
\* evicted or overwritten, also when a timer of an earlier set of the key fires
\* in between; from t+T on, get(key) returns absent for it.
C12_RetrievableUntilExpiry ==
    [][\A key \in CacheKeys :
         (MapHas(_cache, key) /\ MapGet(_cache, key).expiry # Null) =>
             /\ CacheGet(_cache, now, key).hit = (now < MapGet(_cache, key).expiry)
             /\ (now < MapGet(_cache, key).expiry) =>
                    /\ CacheGet(_cache, now, key).events =
                           <<Event("get", key, MapGet(_cache, key).value)>>
                    /\ \/ MapHas(_cache', key) /\ MapGet(_cache', key) = MapGet(_cache, key)
                       \/ RemovedOnPurpose(key)
      ]_vars

\* The timer of an earlier set of a key has just run while the key holds the
\* entry of a later set whose expiry time has not passed: the entry is stored
\* and get returns it
C12_Witness ==
    /\ fired # ""
    /\ MapHas(_cache, fired)
    /\ MapGet(_cache, fired).expiry # Null
    /\ now < MapGet(_cache, fired).expiry
    /\ CacheGet(_cache, now, fired).hit
    /\ emitted = <<>>

\* The events of the step hold an expired notification for `key`
ExpiredEmitted(key) ==
    \E i \in 1..Len(emitted') :
        emitted'[i].key = key /\ emitted'[i].name = "expired"

\* C13: an entry whose most recent set passed ttl = null never expires: no
\* timer firing, sweep or get removes it or emits an expired notification for
\* it, whatever earlier sets of the key did; it leaves the cache only through
\* delete, clear, stop, LRU eviction or a later overwrite.
C13_NullTTLNeverExpires ==
    [][\A key \in CacheKeys :
         (MapHas(_cache, key) /\ MapGet(_cache, key).expiry = Null) =>
             /\ ~ExpiredEmitted(key)
             /\ \/ MapHas(_cache', key) /\ MapGet(_cache', key) = MapGet(_cache, key)
                \/ RemovedOnPurpose(key)
      ]_vars

\* A key holds an entry set with ttl = null while the timer of an earlier set
\* of the key is due, and the timer's callback removes the entry and emits an
\* expired notification for it
C13_Diverges ==
    \E tm \in timers :
        /\ tm.due <= now
        /\ MapHas(_cache, tm.key)
        /\ MapGet(_cache, tm.key).expiry = Null
        /\ ~MapHas(TimerExpired(_cache, now, tm.key).map, tm.key)
        /\ TimerExpired(_cache, now, tm.key).events =
               <<Event("expired", tm.key, MapGet(_cache, tm.key).value)>>

\* The number of expired notifications for `key` among the events of the step
ExpiredCount(key) ==
    Cardinality({i \in 1..Len(emitted') :
                    emitted'[i].key = key /\ emitted'[i].name = "expired"})

\* C14: an entry that reaches its expiry time while stored causes exactly one
\* expired notification, from whichever of its timer, the sweep or a get
\* observes it first, and the observer removes it; no expired notification is
\* emitted for a key whose entry was deleted or evicted before its expiry.
C14_ExpiredOncePerNaturalExpiry ==
    [][\A key \in CacheKeys :
         /\ ExpiredEmitted(key) =>
               /\ MapHas(_cache, key)
               /\ HasExpired(MapGet(_cache, key), now)
               /\ ~MapHas(_cache', key)
               /\ ExpiredCount(key) = 1
         /\ (/\ MapHas(_cache, key)
             /\ HasExpired(MapGet(_cache, key), now)
             /\ ~MapHas(_cache', key)
             /\ ~RemovedOnPurpose(key)) => ExpiredCount(key) = 1
      ]_vars

\* The timer of an earlier set of a key is due while the key holds an entry
\* that has not reached an expiry time, and the timer's callback emits an
\* expired notification for the key
C14_Diverges ==
    \E tm \in timers :
        /\ tm.due <= now
        /\ MapHas(_cache, tm.key)
        /\ ~HasExpired(MapGet(_cache, tm.key), now)
        /\ TimerExpired(_cache, now, tm.key).events # <<>>

-----------------------------------------------------------------------------
(* Properties of the matcher, checked under SpecMatch *)

\* matchURLToPatterns has returned: the mapping of the path
HasMapping ==
    matchFile \in DOMAIN mappings

Result ==
    mappings[matchFile]

\* split('/').filter(Boolean)
Parts(s) ==
    FilterBoolean(Split(s, "/"))

SameCount(pattern) ==
    Len(Parts(pattern)) = Len(Parts(matchFile))

ScoreOf(pattern) ==
    matchPattern(Parts(matchFile), Parts(pattern)).score

\* The pattern has the path's segment count and every segment of it accepts
\* the path's segment
Passes(pattern) ==
    SameCount(pattern) /\ ScoreOf(pattern) >= 0

\* The pattern has the path's segment count and one of its segments rejects
FailsCheck(pattern) ==
    SameCount(pattern) /\ ScoreOf(pattern) < 0

PassesOrDiffers(pattern) ==
    ~FailsCheck(pattern)

\* The positions of the patterns that match the path
Candidates ==
    {i \in 1..Len(matchPatterns) : Passes(matchPatterns[i])}

\* Some pattern matches a path that has a segment
Genuine ==
    Candidates # {} /\ Len(Parts(matchFile)) > 0

\* C15: matchURLToPatterns never returns a pattern one of whose typed segments
\* failed its type check: in every genuine match the returned pattern is that
\* of a candidate that passed, each returned parameter value satisfies the
\* validator of the type declared for its name, and the patterns that failed a
\* check have no effect on the result.
C15_NoFailedCandidateSelected ==
    HasMapping =>
        /\ Genuine =>
              \E i \in Candidates :
                  Result.pattern = buildMappedPattern(Parts(matchPatterns[i]))
        /\ \A name \in DOMAIN Result.dataTypes :
              /\ name \in DOMAIN Result.params
              /\ Result.dataTypes[name] # NullType =>
                    validateDataType(Result.params[name], Result.dataTypes[name])
        /\ Result = matchURLToPatterns(matchFile, SelectSeq(matchPatterns, PassesOrDiffers))

\* The first pattern supplied, typed number, fails its type check on the path
\* and a later pattern, typed string, is returned with the path's value
C15_Witness ==
    /\ HasMapping
    /\ matchFile = <<"/", "p", "/", "a", "b">>
    /\ Len(matchPatterns) >= 2
    /\ matchPatterns[1] = P_number
    /\ FailsCheck(matchPatterns[1])
    /\ Result.dataTypes = ObjSet(EmptyMap, <<"i", "d">>, T_string)
    /\ Result.params = ObjSet(EmptyMap, <<"i", "d">>, <<"a", "b">>)

\* The result of matchPattern for the pattern at position i
MatchOf(i) ==
    matchPattern(Parts(matchFile), Parts(matchPatterns[i]))

\* Position i is the first one whose pattern attains the highest score of the
\* patterns that match
FirstHighest(i) ==
    /\ i \in Candidates
    /\ \A j \in Candidates :
          \/ MatchOf(j).score < MatchOf(i).score
          \/ MatchOf(j).score = MatchOf(i).score /\ j >= i

\* C16: among the patterns that have the path's segment count and are not
\* rejected, matchURLToPatterns returns the one with the highest accumulated
\* score, and of several with that score the first in the order supplied; a
\* further run returns the same result.
C16_HighestScoreFirstWins ==
    HasMapping =>
        /\ Genuine =>
              \E i \in Candidates :
                  /\ FirstHighest(i)
                  /\ Result.pattern = buildMappedPattern(Parts(matchPatterns[i]))
                  /\ Result.dataTypes = MatchOf(i).dataTypes
                  /\ Result.params = MatchOf(i).params
        /\ Result = matchURLToPatterns(matchFile, matchPatterns)

\* A literal pattern and a typed pattern supplied after it reach the same
\* score on the path, above that of a third pattern, and the literal one is returned
C16_Witness ==
    /\ HasMapping
    /\ Len(matchPatterns) = 3
    /\ matchPatterns[1] = P_name
    /\ matchPatterns[2] = P_literal
    /\ matchPatterns[3] = P_number
    /\ matchFile = <<"/", "p", "/", "1">>
    /\ MatchOf(1).score < MatchOf(2).score
    /\ MatchOf(2).score = MatchOf(3).score
    /\ Result.pattern = <<"p", "/", "1">>
    /\ Result.params = EmptyMap

C18_ElseBelowName ==
    (/\ HasMapping
     /\ Range(matchPatterns) = {P_else, P_name}
     /\ Passes(P_name)) =>
        /\ Passes(P_else)
        /\ ScoreOf(P_else) < ScoreOf(P_name)
        /\ Result.pattern = buildMappedPattern(Parts(P_name))

\* The `:else` pattern is supplied before the `:name` pattern: both reach the
\* same score and the `:else` pattern is returned, `else` being the name of a
\* parameter that captured the path's segment
C18_Diverges ==
    /\ HasMapping
    /\ matchFile = <<"/", "p", "/", "1">>
    /\ matchPatterns = <<P_else, P_name>>
    /\ ScoreOf(P_else) = ScoreOf(P_name)
    /\ Result.pattern = <<"p", "/", ":", "e", "l", "s", "e">>
    /\ Result.params = ObjSet(EmptyMap, <<"e", "l", "s", "e">>, <<"1">>)

\* The degraded result for the path
Degraded ==
    [pattern |-> matchFile, dataTypes |-> EmptyMap,
     required_key |-> matchFile, params |-> EmptyMap]

\* C19: when no pattern matches the path, matchURLToPatterns returns the
\* degraded result: pattern and required_key both equal the input path
\* verbatim, the name-to-type map is empty and params is empty.
C19_NoMatchDegrades ==
    (HasMapping /\ Candidates = {}) => Result = Degraded

\* Patterns were supplied for a path with a trailing slash, one of them of
\* the path's segment count, and none matches: the path is returned as it was given
C19_Witness ==
    /\ HasMapping
    /\ matchFile = <<"/", "p", "/", "1", "/">>
    /\ \E i \in 1..Len(matchPatterns) : FailsCheck(matchPatterns[i])
    /\ Candidates = {}
    /\ Result.pattern = <<"/", "p", "/", "1", "/">>
    /\ Result.required_key = <<"/", "p", "/", "1", "/">>
    /\ DOMAIN Result.params = {}

\* C20: for every genuine match, '/' followed by the returned required_key
\* equals the registration key of the pattern the matcher selected (patterns
\* written with one leading '/' and no empty segment), so the dispatcher's
\* table lookup by required key finds the entry of the winning pattern.
C20_RequiredKeyIsRegistrationKey ==
    (HasMapping /\ Genuine) =>
        \E i \in Candidates :
            /\ FirstHighest(i)
            /\ <<"/">> \o Result.required_key = proper_route_key(<<>>, matchPatterns[i])

\* The pattern returned declares the parameter `id` twice, typed string and
\* then number: the required key gives both segments the type number and is
\* not the key the pattern was registered under
C20_Diverges ==
    /\ HasMapping
    /\ matchFile = <<"/", "q", "/", "1">>
    /\ matchPatterns = <<P_twice>>
    /\ Result.pattern = <<":", "i", "d", "/", ":", "i", "d">>
    /\ Result.required_key = <<"[", ":", "i", "d", "=", "n", "u", "m", "b", "e", "r", "]", "/", "[", ":", "i", "d", "=", "n", "u", "m", "b", "e", "r", "]">>
    /\ <<"/">> \o Result.required_key # proper_route_key(<<>>, P_twice)

-----------------------------------------------------------------------------
(* Properties of the matcher on malformed and `else`-typed patterns, checked under SpecEdge *)

WellFormed(pattern) ==
    pattern \notin MalformedPatterns

\* C21: a pattern that contains a malformed dynamic segment (brackets with the
\* name or the type missing, or a bare ':') is never returned as the match for
\* any path, whatever its other segments are, and it does not stop other
\* patterns from being matched.
C21_MalformedNeverMatches ==
    HasMapping =>
        /\ \A i \in 1..Len(matchPatterns) :
              ~WellFormed(matchPatterns[i]) => FailsCheck(matchPatterns[i])
        /\ Result = matchURLToPatterns(matchFile, SelectSeq(matchPatterns, WellFormed))
        /\ (\A i \in 1..Len(matchPatterns) : ~WellFormed(matchPatterns[i])) =>
              Result = Degraded

\* A pattern whose bracket segment has no type is supplied first, its literal
\* segment equal to the path's, and the untyped pattern supplied after it is
\* returned with the path's value
C21_Witness ==
    /\ HasMapping
    /\ matchFile = <<"/", "p", "/", "1">>
    /\ Len(matchPatterns) >= 2
    /\ matchPatterns[1] = P_noType
    /\ matchPatterns[2] = P_name
    /\ Result.pattern = <<"p", "/", ":", "i", "d">>
    /\ Result.dataTypes = ObjSet(EmptyMap, <<"i", "d">>, NullType)
    /\ Result.params = ObjSet(EmptyMap, <<"i", "d">>, <<"1">>)

-----------------------------------------------------------------------------
(* C29: clear() and stop(), checked under SpecCache *)

\* The notifications of the step are one delete, with key and value, for
\* each entry that was stored, and nothing else
OneDeletePerEntry ==
    /\ Len(emitted') = Len(_cache)
    /\ \A j \in 1..Len(emitted') : emitted'[j].name = "delete"
    /\ \A i \in 1..Len(_cache) :
          Cardinality({j \in 1..Len(emitted') :
                          /\ emitted'[j].key = _cache[i].key
                          /\ emitted'[j].value = _cache[i].value}) = 1

\* C29: clear() leaves the cache empty and emits exactly one delete
\* notification, with key and value, for each entry that was stored, and no
\* evict or expired notification; stop() does the same, and once the cache is
\* stopped the background sweep never runs again.
C29_ClearAndStopEmptyTheCache ==
    [][/\ (Clear \/ Stop) => (_cache' = <<>> /\ OneDeletePerEntry)
       /\ Stop => ~cleanupTimer'
       /\ ~cleanupTimer => (~cleanupTimer' /\ ~Sweep)]_vars

\* stop() has just removed two entries, one notification each
C29_Witness ==
    /\ ~cleanupTimer
    /\ _cache = <<>>
    /\ Len(emitted) = 2
    /\ emitted[1].name = "delete" /\ emitted[2].name = "delete"
    /\ emitted[1].key # emitted[2].key

-----------------------------------------------------------------------------
(* C28: the type `else`, checked under SpecEdge *)

\* C28: a segment declared [:name=else] accepts any non-empty path segment,
\* exactly like the untyped segment :name: the two patterns pass for the same
\* paths, and supplied alone the else-typed pattern is returned for every path
\* the untyped one accepts, with the path's segment as the parameter value.
C28_ElseAcceptsLikeUntyped ==
    HasMapping =>
        /\ Passes(P_typedElse) <=> Passes(P_name)
        /\ (matchPatterns = <<P_typedElse>> /\ Passes(P_name)) =>
              /\ Result # Degraded
              /\ Result.params = ObjSet(EmptyMap, <<"i", "d">>, Parts(matchFile)[2])

\* /p/1 was matched against /p/[:id=else] alone and came back unmatched, though
\* the untyped /p/:id accepts it
C28_Diverges ==
    /\ HasMapping
    /\ matchFile = <<"/", "p", "/", "1">>
    /\ matchPatterns = <<P_typedElse>>
    /\ Passes(P_name)
    /\ Result = Degraded

-----------------------------------------------------------------------------
(* Properties of the handler call, checked under Spec *)

\* The step invokes the terminal handler of request r
HandlerInvoked(r) ==
    req'[r].handlerCalls > req[r].handlerCalls

\* The name of a dynamic pattern segment, <<>> for a literal one
SegmentName(part) ==
    IF StartsWith(MappedPart(part), <<":">>) THEN Tail(MappedPart(part)) ELSE <<>>

\* params maps each dynamic segment name of the pattern to the path segment at
\* the same position, and nothing else
ArePositional(params, fileParts, patternParts) ==
    /\ Len(fileParts) = Len(patternParts)
    /\ DOMAIN params = {SegmentName(patternParts[i]) : i \in 1..Len(patternParts)} \ {<<>>}
    /\ \A i \in 1..Len(patternParts) :
          SegmentName(patternParts[i]) # <<>> =>
              params[SegmentName(patternParts[i])] = fileParts[i]

\* The pattern matched for the request's method is registered and the params
\* are those of its dynamic segments
ParamsOfMatch(rq, fresh) ==
    /\ HasOwnProperty(routes[rq.method], TableKey(fresh))
    /\ ArePositional(rq.calledParams, Parts(Split(rq.url, "?")[1]), Parts(TableKey(fresh)))

-----------------------------------------------------------------------------
(* C23: the calling convention of handlers *)

\* Function.length of the handlers in use: the inline handlers are declared as
\* (res, query, path_params, body) and (res), a handler file's default export
\* as (res, req, query, path_params, body)
DeclaredLength(handler) ==
    CASE handler = H1 -> 4
      [] handler = H2 -> 1
      [] OTHER -> 5

\* The argument list each declared parameter count stands for
Convention(length) ==
    CASE length = 1 -> <<"response">>
      [] length = 4 -> <<"response", "query", "routePathParameters", "body">>
      [] OTHER -> <<"response", "request", "query", "routePathParameters", "body">>

\* What the handler's declared parameters are bound to by the call
Received(rq) ==
    SubSeq(rq.calledArgs, 1, DeclaredLength(rq.calledHandler))

\* C23: whenever a handler is invoked, its declared parameters receive the
\* arguments of the calling convention of its declared parameter count: a
\* one-parameter handler (response), a four-parameter handler (response,
\* query, params, body), a five-parameter handler (response, request, query,
\* params, body)
C23_ConventionByArity ==
    [][\A r \in RequestIds :
          HandlerInvoked(r)
              => Received(req'[r]) = Convention(DeclaredLength(req'[r].calledHandler))]_vars

\* The four-parameter handler ran and its query parameter received the request
C23_Diverges ==
    \E r \in RequestIds :
        /\ req[r].handlerCalls > 0
        /\ req[r].calledHandler = H1
        /\ Received(req[r])[2] = "request"
        /\ Convention(DeclaredLength(H1))[2] = "query"

-----------------------------------------------------------------------------
(* SpecReg: routes registered while the server runs, between requests of one
   method that follow one another *)

\* addRoute calls: a route without an inline handler, its sibling of another
\* type with one, and the same sibling registered again with another handler
RegDefs ==
    {[method |-> GET, path |-> ProductString, handler |-> Undefined],
     [method |-> GET, path |-> ProductNumber, handler |-> H1],
     [method |-> GET, path |-> ProductNumber, handler |-> H2]}

RegRequests ==
    {[method |-> GET, url |-> <<"/", "p", "/", "1">>, secure |-> FALSE],
     [method |-> GET, url |-> <<"/", "p", "/", "x">>, secure |-> FALSE]}

InitReg ==
    /\ InitSharedCache
    /\ routes = EmptyMap
    /\ prefix_route = <<>>
    /\ middlewares = <<MiddlewareEntry(FALSE, <<>>, NoComment)>>
    /\ sapix_api \in {NoFiles, [f \in {<<"p", "/", ":", "i", "d", "/", "g", "e", "t">>} |-> "function"]}
    /\ req = [r \in RequestIds |-> NewRequest]
    /\ InitNoMatch

\* The server calls routeHandle with a new request and response once an earlier
\* call has returned: nothing of the earlier call remains but the cache
NextCall(r, in) ==
    /\ req[r].pc \in {"done", "failed"}
    /\ req' = [req EXCEPT ![r] = IF HasRoutes(routes, in.method)
                                 THEN Started(NewRequest, in)
                                 ELSE NotFound(NewRequest, in)]
    /\ NoCacheUse
    /\ UNCHANGED <<routes, prefix_route, middlewares, sapix_api>>

NextReg ==
    \/ \E def \in RegDefs : AddRoute(def)
    \/ \E r \in RequestIds, in \in RegRequests : RouteHandle(r, in)
    \/ \E r \in RequestIds, in \in RegRequests : NextCall(r, in)
    \/ \E r \in RequestIds : BodyRejected(r)
    \/ \E r \in RequestIds, sync \in Syncs : BodyRead(r, sync)
    \/ \E r \in RequestIds, sync \in Syncs : FetchReturns(r, sync)
    \/ \E r \in RequestIds, index \in 1..MaxMiddlewares, sync \in Syncs :
          MiddlewareNext(r, index, sync)

SpecReg == InitReg /\ [][NextReg]_vars

-----------------------------------------------------------------------------
(* C24: a 501 is not cached *)

\* An earlier call for the method and URL of request r was answered 501
Answered501(r) ==
    \E r2 \in RequestIds \ {r} :
        /\ req[r2].pc = "done"
        /\ req[r2].statusCode = 501
        /\ req[r2].method = req[r].method
        /\ req[r2].url = req[r].url

\* A pattern registered for the request's method matches its path
Registered(rq) ==
    HasOwnProperty(routes[rq.method], TableKey(FreshMatch(rq)))

\* The handler of the route the request's path matches: the inline one, or the
\* one the loader finds for the route
HandlerOfRoute(rq, routePath) ==
    IF Lookup(routes[rq.method], TableKey(routePath)) # Undefined
    THEN Lookup(routes[rq.method], TableKey(routePath))
    ELSE fetchFunction(sapix_api, HandlerFile(routePath.pattern, rq.method)).fn

\* C24: a 501 outcome is never cached: a request whose method and path were
\* answered 501 before, and for which a matching route of that method has been
\* registered since, is not answered 501; it resolves to that route and the
\* handler handed to the chain is the handler of that route.
C24_LateRouteServesNextRequest ==
    [][\A r \in RequestIds :
          (Completes(r) /\ Answered501(r) /\ Registered(req[r])) =>
              /\ req'[r].statusCode # 501
              /\ req'[r].routePath = FreshMatch(req[r])
              /\ req'[r].routeFunctionHandler = HandlerOfRoute(req[r], FreshMatch(req[r]))]_vars

\* GET /p/1 was answered 501, /p/[:id=number] was registered with h1 after
\* that, and the next GET /p/1 ran the handler loaded for /p/[:id=string]
C24_Diverges ==
    \E r \in RequestIds, r2 \in RequestIds :
        /\ req[r2].pc = "done" /\ req[r2].statusCode = 501
        /\ req[r2].method = GET /\ req[r2].url = <<"/", "p", "/", "1">>
        /\ req[r].pc = "done" /\ req[r].method = GET /\ req[r].url = <<"/", "p", "/", "1">>
        /\ GET \in DOMAIN routes
        /\ req[r].routePath = FreshMatch(req[r])
        /\ Lookup(routes[GET], TableKey(req[r].routePath)) \in {H1, H2}
        /\ req[r].handlerCalls = 1
        /\ req[r].calledHandler = "external"

-----------------------------------------------------------------------------
(* SpecPrefix: the startup script calls prefix and the registration methods *)

\* Arguments of prefix(): none, a bare slash, and /api/v1 with and without
\* trailing slashes
PrefixArgs ==
    {<<>>, <<"/">>, <<"/", "a", "p", "i", "/", "v", "1">>, <<"/", "a", "p", "i", "/", "v", "1", "/", "/">>}

\* Registrations under the prefixes: the empty path, and /user with and
\* without trailing slashes
PrefixDefs ==
    {[method |-> m, path |-> p, handler |-> H1] :
        m \in {GET, POST}, p \in {<<>>, <<"/">>, <<"/", "u", "s", "e", "r">>, <<"/", "u", "s", "e", "r", "/", "/">>}}

InitPrefix ==
    /\ InitSharedCache
    /\ routes = EmptyMap
    /\ prefix_route = <<>>
    /\ middlewares = <<>>
    /\ sapix_api = NoFiles
    /\ req = [r \in RequestIds |-> NewRequest]
    /\ InitNoMatch

NextPrefix ==
    \/ \E p \in PrefixArgs : Prefix(p)
    \/ \E def \in PrefixDefs : AddRoute(def)

SpecPrefix == InitPrefix /\ [][NextPrefix]_vars

\* t is s without its trailing slashes
IsStripOf(t, s) ==
    /\ Len(t) <= Len(s)
    /\ t = SubSeq(s, 1, Len(t))
    /\ Len(t) > 0 => t[Len(t)] # "/"
    /\ \A i \in (Len(t) + 1)..Len(s) : s[i] = "/"

WithoutTrailingSlashes(s) ==
    CHOOSE t \in {SubSeq(s, 1, n) : n \in 0..Len(s)} : IsStripOf(t, s)

\* The key a registration of `path` belongs under while `prefix` is active
KeyUnder(prefix, path) ==
    IF WithoutTrailingSlashes(prefix) \o WithoutTrailingSlashes(path) = <<>>
    THEN <<"/">>
    ELSE WithoutTrailingSlashes(prefix) \o WithoutTrailingSlashes(path)

\* What the table of `method` holds under `key`, Undefined without the table
Held(rts, method, key) ==
    IF method \in DOMAIN rts THEN Lookup(rts[method], key) ELSE Undefined

HeldKeys(rts, method) ==
    IF method \in DOMAIN rts THEN Range(Keys(rts[method])) ELSE {}

\* The tables differ in nothing but the handler under `key` of `method`
OnlyStored(old, new, method, key, handler) ==
    /\ DOMAIN new = DOMAIN old \cup {method}
    /\ \A m \in DOMAIN new :
          /\ HeldKeys(new, m) = HeldKeys(old, m) \cup (IF m = method THEN {key} ELSE {})
          /\ \A k \in HeldKeys(new, m) :
                Held(new, m, k) = IF m = method /\ k = key THEN handler ELSE Held(old, m, k)

\* C25: addRoute stores the handler under the active prefix without trailing
\* slashes followed by the path without trailing slashes, or under '/' when
\* that is empty, and changes no other key; prefix() makes its argument without
\* trailing slashes the active prefix for the registrations that follow and
\* changes no key registered before.
C25_KeyIsPrefixThenPath ==
    [][/\ \A p \in PrefixArgs :
            Prefix(p) => /\ prefix_route' = WithoutTrailingSlashes(p)
                         /\ routes' = routes
       /\ \A def \in PrefixDefs :
            AddRoute(def) =>
                /\ prefix_route' = prefix_route
                /\ OnlyStored(routes, routes', def.method,
                              KeyUnder(prefix_route, def.path), def.handler)]_vars

\* prefix('/api/v1//') was followed by get('/user//', h1), then prefix('/') by
\* get('/', h1) and post('', h1): the keys are /api/v1/user and /
C25_Witness ==
    /\ prefix_route = <<>>
    /\ GET \in DOMAIN routes /\ POST \in DOMAIN routes
    /\ Keys(routes[GET]) = <<<<"/", "a", "p", "i", "/", "v", "1", "/", "u", "s", "e", "r">>, <<"/">>>>
    /\ Keys(routes[POST]) = <<<<"/">>>>

-----------------------------------------------------------------------------
(* C26: the last registration wins *)

\* How many entries the table of `method` holds under `key`
Entries(rts, method, key) ==
    Cardinality({i \in 1..Len(rts[method]) : rts[method][i].key = key})

\* The step registers def under a key its method holds already
RegistersAgain(def) ==
    /\ AddRoute(def)
    /\ def.method \in DOMAIN routes
    /\ HasOwnProperty(routes[def.method], proper_route_key(prefix_route, def.path))

\* The inline handler registered last under the key the request resolved to
LastRegistered(rq) ==
    Lookup(routes[rq.method], TableKey(rq.routePath))

\* C26: after a method and key are registered a second time the table holds
\* one entry for them, with the handler registered last, and a request that
\* resolves to that key is dispatched with the handler registered last, not
\* with an earlier one.
C26_LastRegistrationWins ==
    [][/\ \A def \in RegDefs :
            RegistersAgain(def) =>
                /\ Entries(routes', def.method, proper_route_key(prefix_route, def.path)) = 1
                /\ Held(routes', def.method, proper_route_key(prefix_route, def.path)) = def.handler
       /\ \A r \in RequestIds :
            (/\ Completes(r)
             /\ req'[r].statusCode # 501
             /\ TableKey(req'[r].routePath) = ProductNumber
             /\ LastRegistered(req'[r]) # Undefined) =>
                req'[r].routeFunctionHandler = LastRegistered(req'[r])]_vars

\* /p/[:id=number] was registered with h1, GET /p/1 ran h1, and the route was
\* registered again with h2: the table holds h2 and the handler cache still
\* holds h1 for the GET /p/1 that is about to be resolved
C26_Diverges ==
    \E r \in RequestIds, r2 \in RequestIds :
        /\ GET \in DOMAIN routes
        /\ Keys(routes[GET]) = <<ProductNumber>>
        /\ Lookup(routes[GET], ProductNumber) = H2
        /\ req[r2].pc = "done" /\ req[r2].url = <<"/", "p", "/", "1">>
        /\ req[r2].handlerCalls = 1 /\ req[r2].calledHandler = H1
        /\ req[r].pc = "body" /\ req[r].url = <<"/", "p", "/", "1">>
        /\ MapHas(_cache, HandlerKey(req[r2].routePath.pattern, GET))
        /\ MapGet(_cache, HandlerKey(req[r2].routePath.pattern, GET)).value = H1

-----------------------------------------------------------------------------
(* SpecPair: two requests against a fixed route table, suspended and resumed
   in any order *)

\* The tables of the startup script: the three routes, or only the routes with
\* an inline handler
PairTables ==
    {addRoute(addRoute(addRoute(EmptyMap, <<>>, GET, ProductNumber, H1),
                       <<>>, GET, ProductString, Undefined),
              <<>>, POST, ProductString, H2),
     addRoute(addRoute(EmptyMap, <<>>, GET, ProductNumber, H1),
              <<>>, POST, ProductString, H2)}

InitPair ==
    /\ InitSharedCache
    /\ routes \in PairTables
    /\ prefix_route = <<>>
    /\ middlewares = <<MiddlewareEntry(FALSE, <<>>, NoComment)>>
    /\ sapix_api \in FileSystems
    /\ req = [r \in RequestIds |-> NewRequest]
    /\ InitNoMatch

NextPair ==
    \/ \E r \in RequestIds, in \in Requests : RouteHandle(r, in)
    \/ \E r \in RequestIds : BodyRejected(r)
    \/ \E r \in RequestIds, sync \in Syncs : BodyRead(r, sync)
    \/ \E r \in RequestIds, sync \in Syncs : FetchReturns(r, sync)
    \/ \E r \in RequestIds, index \in 1..MaxMiddlewares, sync \in Syncs :
          MiddlewareNext(r, index, sync)

SpecPair == InitPair /\ [][NextPair]_vars

\* What a routeHandle call came to: the route and the handler it resolved for
\* the request (the handler is called with the params of that route) and the
\* status of the response
Outcome(routePath, handler, statusCode) ==
    [routePath |-> routePath, handler |-> handler, statusCode |-> statusCode]

OutcomeOf(rq) ==
    Outcome(rq.routePath, rq.routeFunctionHandler, rq.statusCode)

InputOf(rq) ==
    [method |-> rq.method, url |-> rq.url, secure |-> rq.secure]

\* routeHandle run from its first line to its last with no other call in
\* between, on the cache c: the cache it leaves and its outcome
AloneFetched(c, rq, fn) ==
    [cache |-> CacheHandler(c, rq, fn, FALSE),
     out |-> Outcome(rq.routePath, fn, IF fn = Undefined THEN 204 ELSE 200)]

AloneWithHandler(rq, rh) ==
    IF rh.handler = Undefined
    THEN AloneFetched(rh.cache, rq,
                      fetchFunction(sapix_api, HandlerFile(rq.routePath.pattern, rq.method)).fn)
    ELSE [cache |-> CacheHandler(rh.cache, rq, rh.handler, rh.cached),
          out |-> Outcome(rq.routePath, rh.handler, 200)]

AloneWithRoute(rq, rr) ==
    IF ~rr.doesItEverMentioned
    THEN [cache |-> rr.cache, out |-> Outcome(rr.routePath, Undefined, 501)]
    ELSE AloneWithHandler(Resolved(rq, rr.routePath, Undefined),
                          ResolveHandler(routes, rr.cache, Resolved(rq, rr.routePath, Undefined)))

Alone(c, in) ==
    IF ~HasRoutes(routes, in.method)
    THEN [cache |-> c, out |-> Outcome(NoMatch, Undefined, 404)]
    ELSE AloneWithRoute(Started(NewRequest, in),
                        ResolveRoute(routes, c, Started(NewRequest, in)))

EmptyCache ==
    [map |-> <<>>, timers |-> {}, events |-> <<>>]

\* The outcomes of `first` and `second` run one after the other
OneAfterTheOther(first, second) ==
    <<Alone(EmptyCache, first).out, Alone(Alone(EmptyCache, first).cache, second).out>>

BothDone ==
    \A r \in RequestIds : req[r].pc = "done"

\* C27: however two requests are suspended and resumed at their body read
\* and their handler load, each is served the route, params and handler it
\* resolved for itself, and the outcomes of the two are those of running them
\* one after the other, in one of the two orders.
C27_InterleavingIsSerial ==
    BothDone =>
        \/ <<OutcomeOf(req[1]), OutcomeOf(req[2])>>
              = OneAfterTheOther(InputOf(req[1]), InputOf(req[2]))
        \/ <<OutcomeOf(req[2]), OutcomeOf(req[1])>>
              = OneAfterTheOther(InputOf(req[2]), InputOf(req[1]))


\* GET /p/1 and GET /p/x overlapped: the first ran h1 and the second the
\* handler loaded for /p/[:id=string], while one after the other the later of
\* the two runs the handler the earlier one cached
C27_Diverges ==
    /\ BothDone
    /\ req[1].url = <<"/", "p", "/", "1">> /\ req[1].routeFunctionHandler = H1
    /\ req[2].url = <<"/", "p", "/", "x">> /\ req[2].routeFunctionHandler = "external"
    /\ OneAfterTheOther(InputOf(req[1]), InputOf(req[2]))[2].handler = H1
    /\ OneAfterTheOther(InputOf(req[2]), InputOf(req[1]))[2].handler = "external"

-----------------------------------------------------------------------------
(* Blake2Hasher: hash and _serialize *)

\* A JavaScript value: a number, or an object, named by its place in the heap
Num(n) == [t |-> "number", v |-> n]
Ref(id) == [t |-> "object", v |-> id]

\* An object of the heap: an Array, a Set or a plain Object with its elements,
\* members or own properties in insertion order (elements and members have an
\* empty key)
Prop(key, value) == [key |-> key, value |-> value]
Obj(kind, items) == [kind |-> kind, items |-> items]

\* Number.prototype.toString, for the one-digit numbers in use
NumberToString(n) ==
    <<Digits[n + 1]>>

\* The characters in use, in the order of their UTF-16 code units
CodeUnitOrder ==
    <<" ", ",">> \o Digits \o <<"O", "S", "[", "]">> \o LowerLetters

CodeUnit(c) ==
    CHOOSE i \in 1..Len(CodeUnitOrder) : CodeUnitOrder[i] = c

\* a < b for two strings
RECURSIVE StringLess(_, _)
StringLess(a, b) ==
    IF Len(b) = 0 THEN FALSE
    ELSE IF Len(a) = 0 THEN TRUE
    ELSE IF a[1] # b[1] THEN CodeUnit(a[1]) < CodeUnit(b[1])
    ELSE StringLess(Tail(a), Tail(b))

\* typeof
Typeof(value) ==
    IF value.t = "number" THEN <<"n", "u", "m", "b", "e", "r">> ELSE <<"o", "b", "j", "e", "c", "t">>

\* String(value): the primitive an object is compared by; an Array that is
\* being joined already yields the empty string
RECURSIVE ToStringOf(_, _, _)
ToStringOf(mem, value, joining) ==
    IF value.t = "number" THEN NumberToString(value.v)
    ELSE IF mem[value.v].kind = "Object" THEN <<"[", "o", "b", "j", "e", "c", "t", " ", "O", "b", "j", "e", "c", "t", "]">>
    ELSE IF mem[value.v].kind = "Set" THEN <<"[", "o", "b", "j", "e", "c", "t", " ", "S", "e", "t", "]">>
    ELSE IF value.v \in joining THEN <<>>
    ELSE Join([i \in 1..Len(mem[value.v].items) |->
                   ToStringOf(mem, mem[value.v].items[i].value, joining \cup {value.v})],
              ",")

\* a < b for two values of one type
ValueLess(mem, a, b) ==
    IF a.t = "number"
    THEN a.v < b.v
    ELSE StringLess(ToStringOf(mem, a, {}), ToStringOf(mem, b, {}))

\* Blake2Hasher._compare
compare(mem, a, b) ==
    IF Typeof(a) = Typeof(b)
    THEN IF ValueLess(mem, a, b) THEN -1
         ELSE IF ValueLess(mem, b, a) THEN 1
         ELSE 0
    ELSE IF StringLess(Typeof(a), Typeof(b)) THEN -1 ELSE 1

\* Array.prototype.sort: stable, so that items the comparison holds equal keep
\* their order; Before(x, y) is `the comparison puts x before y`
PlaceOf(s, i, Before(_, _)) ==
    1 + Cardinality({j \in 1..Len(s) :
                        \/ Before(s[j], s[i])
                        \/ ~Before(s[i], s[j]) /\ j < i})

Sort(s, Before(_, _)) ==
    [p \in 1..Len(s) |-> s[CHOOSE i \in 1..Len(s) : PlaceOf(s, i, Before) = p]]

\* The items of an object in the order _serialize visits them: elements as
\* they are, members sorted by _compare, own properties sorted by key
Visited(mem, obj) ==
    IF obj.kind = "Array" THEN obj.items
    ELSE IF obj.kind = "Set"
    THEN Sort(obj.items, LAMBDA x, y : compare(mem, x.value, y.value) < 0)
    ELSE Sort(obj.items, LAMBDA x, y : StringLess(x.key, y.key))

\* What serializeHelper comes to: the string it returns or the TypeError it
\* throws, and the WeakSet `seen` as it leaves it
Returned(out, seen) == [threw |-> FALSE, out |-> out, seen |-> seen]
Thrown(seen) == [threw |-> TRUE, out |-> <<>>, seen |-> seen]

\* The string of an object, given the strings of its visited items
Wrapped(obj, visited, outs) ==
    IF obj.kind = "Array" THEN <<"[">> \o Join(outs, ",") \o <<"]">>
    ELSE IF obj.kind = "Set" THEN <<"S", "e", "t", "{">> \o Join(outs, ",") \o <<"}">>
    ELSE <<"{">> \o Join([i \in 1..Len(outs) |-> visited[i].key \o <<":">> \o outs[i]], ",") \o <<"}">>

RECURSIVE serializeHelper(_, _, _)
RECURSIVE serializeEach(_, _, _)

\* items.map(serializeHelper), given what the first item and the rest came to
EachAfterRest(mem, items, first, rest) ==
    IF first.threw THEN first
    ELSE IF rest.threw THEN rest
    ELSE Returned(<<first.out>> \o rest.out, rest.seen)

EachFrom(mem, items, first) ==
    IF first.threw THEN first
    ELSE EachAfterRest(mem, items, first, serializeEach(mem, Tail(items), first.seen))

\* items.map(serializeHelper): the strings of the items, one after the other
serializeEach(mem, items, seen) ==
    IF Len(items) = 0 THEN Returned(<<>>, seen)
    ELSE EachFrom(mem, items, serializeHelper(mem, items[1].value, seen))

\* The object's string once its items are serialized
ObjectAfterItems(obj, visited, each) ==
    IF each.threw THEN each
    ELSE Returned(Wrapped(obj, visited, each.out), each.seen)

\* serializeHelper(item), with the objects seen so far
serializeHelper(mem, item, seen) ==
    IF item.t = "number" THEN Returned(NumberToString(item.v), seen)
    ELSE IF item.v \in seen THEN Thrown(seen)
    ELSE ObjectAfterItems(mem[item.v], Visited(mem, mem[item.v]),
                          serializeEach(mem, Visited(mem, mem[item.v]), seen \cup {item.v}))

\* Blake2Hasher._serialize
serialize(mem, data) ==
    serializeHelper(mem, data, {})

\* createHash(algorithm).update(serialized).digest('hex'): the digest is named
\* by the string it is the digest of, two strings having two digests
Digest(serialized) ==
    [blake2b |-> serialized]

\* Blake2Hasher.hash(data)
hash(mem, data) ==
    IF serialize(mem, data).threw
    THEN [threw |-> TRUE, digest |-> Digest(<<>>)]
    ELSE [threw |-> FALSE, digest |-> Digest(serialize(mem, data).out)]

-----------------------------------------------------------------------------
(* SpecHash: hash is applied to two values that live in one heap *)

MaxItems == 2

\* Objects 1 and 2 are the two values that are hashed, objects 3 and 4 are what
\* their items refer to: {a: 1}, {a: 2}, or an object that refers back to the
\* first hashed value
InnerObjects ==
    {Obj("Object", <<Prop(<<"a">>, Num(1))>>),
     Obj("Object", <<Prop(<<"a">>, Num(2))>>),
     Obj("Object", <<Prop(<<"a">>, Ref(1))>>)}

ItemValues ==
    {Num(1), Ref(3), Ref(4)}

\* The sequences of at most n items over the values, without keys and with
\* the keys a and b
Elements(n) ==
    UNION {[1..k -> {Prop(<<>>, value) : value \in ItemValues}] : k \in 0..n}

Members(n) ==
    {s \in Elements(n) : \A i, j \in 1..Len(s) : s[i] = s[j] => i = j}

Properties ==
    {s \in UNION {[1..k -> {Prop(key, value) : key \in {<<"a">>, <<"b">>}, value \in ItemValues}] :
                     k \in 0..2} :
        \A i, j \in 1..Len(s) : s[i].key = s[j].key => i = j}

OuterObjects ==
    {Obj("Array", s) : s \in Elements(MaxItems)}
        \cup {Obj("Set", s) : s \in Members(MaxItems)}
        \cup {Obj("Object", s) : s \in Properties}

InitHash ==
    /\ InitSharedCache
    /\ routes = EmptyMap
    /\ prefix_route = <<>>
    /\ middlewares = <<>>
    /\ sapix_api = NoFiles
    /\ req = [r \in RequestIds |-> NewRequest]
    /\ matchFile = <<>>
    /\ matchPatterns = <<>>
    /\ mappings = EmptyMap
    /\ heap \in {<<o1, o2, o3, o4>> : o1 \in OuterObjects, o2 \in OuterObjects,
                                      o3 \in InnerObjects, o4 \in InnerObjects}
    /\ digests = <<>>

\* hasher.hash(first); hasher.hash(second)
Hash ==
    /\ digests = <<>>
    /\ digests' = <<hash(heap, Ref(1)), hash(heap, Ref(2))>>
    /\ UNCHANGED <<heap, cacheVars, routerVars, matchVars>>

NextHash ==
    Hash

SpecHash == InitHash /\ [][NextHash]_vars

-----------------------------------------------------------------------------
(* Properties of the hasher, checked under SpecHash *)

\* The objects the object refers to
Children(mem, id) ==
    {mem[id].items[i].value.v :
        i \in {j \in 1..Len(mem[id].items) : mem[id].items[j].value.t = "object"}}

RECURSIVE Closure(_, _)
Closure(mem, ids) ==
    IF UNION {Children(mem, id) : id \in ids} \subseteq ids
    THEN ids
    ELSE Closure(mem, ids \cup UNION {Children(mem, id) : id \in ids})

\* The object is reached from itself
OnCycle(mem, id) ==
    id \in Closure(mem, Children(mem, id))

\* The structure under the object is cyclic
Cyclic(mem, id) ==
    \E i \in Closure(mem, {id}) : OnCycle(mem, i)

\* What a value means, identities left aside: a number; for an Array its
\* elements' meanings in order; for a Set how often each meaning is a member;
\* for an Object the meaning under each key
RECURSIVE Meaning(_, _)
MeaningOfItems(mem, obj) ==
    [i \in 1..Len(obj.items) |-> Meaning(mem, obj.items[i].value)]

Counted(meanings) ==
    [m \in {meanings[i] : i \in 1..Len(meanings)} |->
        Cardinality({i \in 1..Len(meanings) : meanings[i] = m})]

Keyed(obj, meanings) ==
    {<<obj.items[i].key, meanings[i]>> : i \in 1..Len(meanings)}

Meaning(mem, value) ==
    IF value.t = "number" THEN [kind |-> "number", val |-> value.v]
    ELSE IF mem[value.v].kind = "Array"
    THEN [kind |-> "Array", val |-> MeaningOfItems(mem, mem[value.v])]
    ELSE IF mem[value.v].kind = "Set"
    THEN [kind |-> "Set", val |-> Counted(MeaningOfItems(mem, mem[value.v]))]
    ELSE [kind |-> "Object", val |-> Keyed(mem[value.v], MeaningOfItems(mem, mem[value.v]))]

Hashed ==
    digests # <<>>

\* The two hashed values are free of cycles and mean the same
SemanticallyIdentical ==
    /\ ~Cyclic(heap, 1) /\ ~Cyclic(heap, 2)
    /\ Meaning(heap, Ref(1)) = Meaning(heap, Ref(2))

\* C30: hash returns the same digest for two semantically identical inputs
\* (equal nested values, entries and members in any insertion order, equal
\* sub-values shared or copied), and for a cyclic structure it throws.
C30_SameMeaningSameDigest ==
    Hashed =>
        /\ SemanticallyIdentical =>
              /\ ~digests[1].threw /\ ~digests[2].threw
              /\ digests[1].digest = digests[2].digest
        /\ \A i \in 1..2 : Cyclic(heap, i) => digests[i].threw


\* [s, s] and [s, t] were hashed, s and t being two objects {a: 1}: the two
\* mean the same, the first threw and the second got its digest
C30_Diverges ==
    /\ Hashed
    /\ heap[1] = Obj("Array", <<Prop(<<>>, Ref(3)), Prop(<<>>, Ref(3))>>)
    /\ heap[2] = Obj("Array", <<Prop(<<>>, Ref(3)), Prop(<<>>, Ref(4))>>)
    /\ heap[3] = Obj("Object", <<Prop(<<"a">>, Num(1))>>)
    /\ heap[4] = heap[3]
    /\ SemanticallyIdentical
    /\ digests[1].threw
    /\ ~digests[2].threw
    /\ digests[2].digest = Digest(<<"[", "{", "a", ":", "1", "}", ",", "{", "a", ":", "1", "}", "]">>)

-----------------------------------------------------------------------------
(* SpecTutorial: matchURLToPatterns applied to the example URLs and the
   example patterns of the tutorial's table of data types *)

TutorialRows ==
    <<[url |-> <<"/", "u", "s", "e", "r", "/", "1", "2", "3">>, pattern |-> <<"/", "u", "s", "e", "r", "/", "[", ":", "i", "d", "=", "n", "u", "m", "b", "e", "r", "]">>],
      [url |-> <<"/", "u", "s", "e", "r", "/", "J", "o", "h", "n", "D", "o", "e">>, pattern |-> <<"/", "u", "s", "e", "r", "/", "[", ":", "n", "a", "m", "e", "=", "s", "t", "r", "i", "n", "g", "]">>],
      [url |-> <<"/", "u", "s", "e", "r", "/", "5", "5", "0", "e", "8", "4", "0", "0", "-", "e", "2", "9", "b", "-", "4", "1", "d", "4", "-", "a", "7", "1", "6", "-", "4", "4", "6", "6", "5", "5", "4", "4", "0", "0", "0", "0">>, pattern |-> <<"/", "u", "s", "e", "r", "/", "[", ":", "i", "d", "=", "u", "u", "i", "d", "]">>],
      [url |-> <<"/", "u", "s", "e", "r", "/", "t", "e", "s", "t", "@", "e", "x", "a", "m", "p", "l", "e", ".", "c", "o", "m">>, pattern |-> <<"/", "u", "s", "e", "r", "/", "[", ":", "e", "m", "a", "i", "l", "=", "e", "m", "a", "i", "l", "]">>],
      [url |-> <<"/", "a", "p", "p", "/", "1", ".", "0", ".", "0">>, pattern |-> <<"/", "a", "p", "p", "/", "[", ":", "v", "e", "r", "s", "i", "o", "n", "=", "v", "e", "r", "s", "i", "o", "n", "]">>],
      [url |-> <<"/", "p", "r", "o", "d", "u", "c", "t", "/", "a", "b", "c", "1", "2", "3">>, pattern |-> <<"/", "p", "r", "o", "d", "u", "c", "t", "/", "[", ":", "c", "o", "d", "e", "=", "a", "l", "p", "h", "a", "n", "u", "m", "e", "r", "i", "c", "]">>],
      [url |-> <<"/", "f", "e", "a", "t", "u", "r", "e", "/", "t", "r", "u", "e">>, pattern |-> <<"/", "f", "e", "a", "t", "u", "r", "e", "/", "[", ":", "s", "t", "a", "t", "u", "s", "=", "b", "o", "o", "l", "e", "a", "n", "]">>],
      [url |-> <<"/", "e", "v", "e", "n", "t", "/", "2", "0", "2", "3", "-", "1", "0", "-", "2", "0">>, pattern |-> <<"/", "e", "v", "e", "n", "t", "/", "[", ":", "d", "a", "t", "e", "=", "d", "a", "t", "e", "]">>],
      [url |-> <<"/", "c", "o", "n", "t", "a", "c", "t", "/", "1", "2", "3", "-", "4", "5", "6", "-", "7", "8", "9", "0">>, pattern |-> <<"/", "c", "o", "n", "t", "a", "c", "t", "/", "[", ":", "p", "h", "o", "n", "e", "=", "p", "h", "o", "n", "e", "]">>],
      [url |-> <<"/", "s", "e", "r", "v", "e", "r", "/", "1", "9", "2", ".", "1", "6", "8", ".", "1", ".", "1">>, pattern |-> <<"/", "s", "e", "r", "v", "e", "r", "/", "[", ":", "a", "d", "d", "r", "e", "s", "s", "=", "i", "p", "]">>],
      [url |-> <<"/", "c", "o", "l", "o", "r", "/", "1", "a", "2", "b", "3", "c">>, pattern |-> <<"/", "c", "o", "l", "o", "r", "/", "[", ":", "c", "o", "d", "e", "=", "h", "e", "x", "]">>],
      [url |-> <<"/", "b", "l", "o", "g", "/", "t", "e", "s", "t", "-", "s", "l", "u", "g">>, pattern |-> <<"/", "b", "l", "o", "g", "/", "[", ":", "s", "l", "u", "g", "=", "s", "l", "u", "g", "]">>]>>

InitTutorial ==
    /\ InitSharedCache
    /\ routes = EmptyMap
    /\ prefix_route = <<>>
    /\ middlewares = <<>>
    /\ sapix_api = NoFiles
    /\ req = [r \in RequestIds |-> NewRequest]
    /\ InitNoHash
    /\ matchFile \in {TutorialRows[i].url : i \in 1..Len(TutorialRows)}
    /\ matchPatterns \in {<<TutorialRows[i].pattern>> : i \in 1..Len(TutorialRows)}
    /\ mappings = EmptyMap

SpecTutorial == InitTutorial /\ [][NextMatch]_vars

\* The example URL of the row was matched against the row's pattern alone
RowMatched(row) ==
    /\ HasMapping
    /\ matchFile = row.url
    /\ matchPatterns = <<row.pattern>>

\* C31: every example URL of the tutorial's table of data types is matched by
\* the example pattern of its row, /app/1.0.0 by /app/[:version=version] and
\* /contact/123-456-7890 by /contact/[:phone=phone] among them: the pattern is
\* returned with the URL's second segment as the value of its parameter.
C31_TutorialExamplesMatch ==
    \A i \in 1..Len(TutorialRows) :
        RowMatched(TutorialRows[i]) =>
            /\ Passes(TutorialRows[i].pattern)
            /\ Result # Degraded
            /\ \E name \in DOMAIN Result.params :
                  Result.params[name] = Parts(matchFile)[2]

\* /app/1.0.0 was matched against /app/[:version=version] and came back
\* unmatched
C31_Diverges ==
    /\ RowMatched(TutorialRows[5])
    /\ TutorialRows[5].url = <<"/", "a", "p", "p", "/", "1", ".", "0", ".", "0">>
    /\ Result = Degraded

-----------------------------------------------------------------------------
(* C32, C33, C35: the shared cache, checked under SpecPair *)

\* C32: over a fixed route table, the match result routeHandle uses for a
\* request is the one the matcher yields for the request's path against the
\* patterns of the request's own method, also when it is served from the
\* cache after a request of another method for the same URL.
C32_MatchIsOfOwnMethod ==
    [][\A r \in RequestIds :
          Resolves(r) => req'[r].routePath = FreshMatch(req[r])]_vars

\* POST /p/1 went on with the match of the GET pattern /p/[:id=number], which
\* GET /p/1 had left in the cache, while the matcher yields no POST pattern
\* for /p/1
C32_Diverges ==
    \E r \in RequestIds :
        /\ req[r].pc \in {"fetch", "done"}
        /\ req[r].method = POST
        /\ req[r].url = <<"/", "p", "/", "1">>
        /\ req[r].statusCode # 501
        /\ TableKey(req[r].routePath) = ProductNumber
        /\ ~HasOwnProperty(routes[POST], ProductNumber)
        /\ FreshMatch(req[r]).required_key = req[r].url
        /\ FreshMatch(req[r]).params = EmptyMap


\* The inline handler the table of the request's method holds under the
\* required key of the match routeHandle went on with
InlineHandler(rq) ==
    Lookup(routes[rq.method], TableKey(rq.routePath))

\* C33: whenever the table of the request's method holds an inline handler
\* under the required key of the request's match, the handler routeHandle
\* hands to the chain and invokes is that handler, also when it comes from
\* the handler cache and two patterns of the method differ only in the
\* declared types of their parameters.
C33_InlineHandlerIsInvoked ==
    [][\A r \in RequestIds :
          (/\ Completes(r)
           /\ req'[r].statusCode # 501
           /\ InlineHandler(req'[r]) # Undefined) =>
              /\ req'[r].routeFunctionHandler = InlineHandler(req'[r])
              /\ HandlerInvoked(r) => req'[r].calledHandler = InlineHandler(req'[r])]_vars

\* GET /p/1 matched /p/[:id=number], registered with h1, and ran the handler
\* that GET /p/x had loaded for /p/[:id=string] and cached
C33_Diverges ==
    \E r \in RequestIds :
        /\ req[r].pc = "done"
        /\ req[r].method = GET
        /\ req[r].url = <<"/", "p", "/", "1">>
        /\ TableKey(req[r].routePath) = ProductNumber
        /\ InlineHandler(req[r]) = H1
        /\ req[r].handlerCalls = 1
        /\ req[r].calledHandler = "external"

-----------------------------------------------------------------------------
(* C34: a literal pattern against a typed one, checked under SpecMatch *)

\* A pattern segment of the form [:name=type]
IsTypedPart(part) ==
    StartsWith(part, <<"[", ":">>) /\ EndsWith(part, <<"]">>)

\* A pattern segment that is neither [:name=type] nor :name
IsLiteralPart(part) ==
    ~IsTypedPart(part) /\ ~StartsWith(part, <<":">>)

AllLiteral(patternParts) ==
    \A i \in 1..Len(patternParts) : IsLiteralPart(patternParts[i])

\* typedParts is literalParts with a typed segment in place of one literal
TypedInPlace(literalParts, typedParts) ==
    /\ Len(typedParts) = Len(literalParts)
    /\ \E k \in 1..Len(typedParts) :
          /\ IsTypedPart(typedParts[k])
          /\ \A i \in 1..Len(typedParts) : i # k => typedParts[i] = literalParts[i]

\* The path is the all-literal pattern at position i, and the pattern at
\* position j, that pattern with one literal typed, accepts the path too
LiteralAndTyped(i, j) ==
    /\ matchPatterns[i] = matchFile
    /\ AllLiteral(Parts(matchPatterns[i]))
    /\ TypedInPlace(Parts(matchPatterns[i]), Parts(matchPatterns[j]))
    /\ Passes(matchPatterns[j])

\* C34: when the path equals a registered all-literal pattern and also
\* satisfies a registered pattern that has a typed dynamic segment in place of
\* one of those literals, matchURLToPatterns selects the all-literal pattern,
\* whichever of the two comes first in the order supplied.
C34_LiteralBeatsTyped ==
    HasMapping =>
        \A i, j \in 1..Len(matchPatterns) :
            LiteralAndTyped(i, j) =>
                /\ Result.pattern = buildMappedPattern(Parts(matchPatterns[i]))
                /\ Result.dataTypes = EmptyMap
                /\ Result.params = EmptyMap

\* The typed pattern, supplied first, is selected for the path /p/1 although
\* the literal pattern /p/1 is supplied too
C34_Diverges ==
    /\ HasMapping
    /\ matchFile = P_literal
    /\ matchPatterns = <<P_number, P_literal>>
    /\ LiteralAndTyped(2, 1)
    /\ Result.pattern = <<"p", "/", ":", "i", "d">>
    /\ Result.params = ObjSet(EmptyMap, <<"i", "d">>, <<"1">>)

\* The literal pattern, supplied first, is selected
C34_LiteralFirst ==
    (HasMapping /\ matchFile = P_literal /\ matchPatterns = <<P_literal, P_number>>) =>
        Result.params = EmptyMap

\* The handler is the inline handler of some route of the method
RegisteredUnder(handler, method) ==
    /\ method \in DOMAIN routes
    /\ \E i \in 1..Len(routes[method]) : routes[method][i].handler = handler

\* The handler is registered under the method and under no other
OnlyUnder(handler, method) ==
    /\ RegisteredUnder(handler, method)
    /\ \A m \in DOMAIN routes \ {method} : ~RegisteredUnder(handler, m)

\* C35: a handler registered only under method M is never invoked for a
\* request whose method is not M, whatever match results and handlers earlier
\* requests left in the shared cache.
C35_HandlerOfItsMethodOnly ==
    [][\A r \in RequestIds, handler \in {H1, H2}, method \in {GET, POST} :
          (/\ HandlerInvoked(r)
           /\ OnlyUnder(handler, method)
           /\ req'[r].method # method) =>
              req'[r].calledHandler # handler]_vars

\* POST /p/1 was resolved through the match GET /p/1 left in the cache, while
\* the cache holds the GET handler h1 of that match, and ran the loaded handler
C35_Witness ==
    \E r \in RequestIds :
        /\ req[r].pc = "done" /\ req[r].method = POST
        /\ req[r].url = <<"/", "p", "/", "1">>
        /\ TableKey(req[r].routePath) = ProductNumber
        /\ OnlyUnder(H1, GET)
        /\ MapHas(_cache, HandlerKey(req[r].routePath.pattern, GET))
        /\ MapGet(_cache, HandlerKey(req[r].routePath.pattern, GET)).value = H1
        /\ req[r].handlerCalls = 1
        /\ req[r].calledHandler = "external"

-----------------------------------------------------------------------------
(* C36, C37: continuations called late or again, checked under SpecMw *)

\* C36: when a middleware callback calls next only after an asynchronous
\* delay, routeHandle does not end the response before the terminal handler has
\* been invoked: for a request whose chain runs to the handler, the
\* dispatcher's final end of the response never precedes the handler's
\* invocation.
C36_HandlerBeforeEnd ==
    \A r \in RequestIds :
        req[r].handlerCalls > 0 => ~req[r].endedBeforeHandler

\* The one callback that applies returned without calling next, routeHandle
\* ended the response, and the callback's late next() ran the handler
C36_Diverges ==
    \E r \in RequestIds :
        /\ req[r].pc = "done" /\ req[r].ended
        /\ req[r].log = <<LogEvent("call", 1), LogEvent("next", 1), LogEvent("handler", 0)>>
        /\ req[r].handlerCalls = 1
        /\ req[r].endedBeforeHandler

\* C37: for each request, every middleware callback and the terminal handler
\* are invoked at most once, even when a middleware callback calls its next
\* continuation more than once.
C37_AtMostOnce ==
    \A r \in RequestIds :
        /\ req[r].handlerCalls <= 1
        /\ \A i \in 1..MaxMiddlewares : req[r].invoked[i] <= 1

\* The first callback, invoked once, called next twice: the callback after it
\* was invoked twice and the handler was invoked at its first call of next
C37_Diverges ==
    \E r \in RequestIds :
        /\ Len(middlewares) = 2
        /\ req[r].nexts[1] = 2
        /\ req[r].invoked[1] = 1
        /\ req[r].invoked[2] = 2
        /\ req[r].handlerCalls = 1

\* The one callback, invoked once, called next twice: the handler ran twice
C37_HandlerTwice ==
    \E r \in RequestIds :
        /\ Len(middlewares) = 1
        /\ req[r].nexts[1] = 2
        /\ req[r].invoked[1] = 1
        /\ req[r].handlerCalls = 2

-----------------------------------------------------------------------------
(* C38, C39: requests that resolve to no handler, checked under Spec *)

\* routeHandle answered the request itself: 404, 501 or 204
AnsweredWithoutHandler(rq) ==
    rq.pc = "done" /\ rq.statusCode \in {404, 501, 204}

\* C38: no middleware callback is invoked for a request that routeHandle
\* answers with 404, 501 or 204: the middleware chain runs only after a handler
\* has been resolved for the request.
C38_NoChainWithoutHandler ==
    \A r \in RequestIds :
        /\ AnsweredWithoutHandler(req[r]) => NothingInvoked(req[r])
        /\ ~NothingInvoked(req[r]) =>
              /\ req[r].routeFunctionHandler # Undefined
              /\ req[r].statusCode = 200

\* With a global middleware registered, one request was answered 501 and
\* another 204, and no callback was invoked for either
C38_Witness ==
    \E r \in RequestIds, r2 \in RequestIds :
        /\ Len(middlewares) = 1
        /\ req[r].pc = "done" /\ req[r].statusCode = 501
        /\ req[r2].pc = "done" /\ req[r2].statusCode = 204
        /\ ~Skipped(middlewares[1], req[r]) /\ ~Skipped(middlewares[1], req[r2])
        /\ NothingInvoked(req[r]) /\ NothingInvoked(req[r2])

\* A request of a method without routes was answered 404 with the middleware
\* registered, and no callback was invoked for it
C38_NotFound ==
    \E r \in RequestIds :
        /\ Len(middlewares) = 1
        /\ req[r].pc = "done" /\ req[r].statusCode = 404
        /\ ~Skipped(middlewares[1], req[r])
        /\ NothingInvoked(req[r])

\* What the loader does for the handler file of the request's route
Loaded(rq) ==
    fetchFunction(sapix_api, HandlerFile(rq.routePath.pattern, rq.method))

\* routeHandle resumes for the request after handler.fetchFunction()
Fetched(r) ==
    req[r].pc = "fetch" /\ req'[r] # req[r]

\* C39: when the external handler loader fails with an error (the handler
\* module exists but exports no default function), routeHandle treats it like
\* an absent handler: it responds 204, caches nothing under the handler key,
\* invokes no middleware and no handler, and the error does not propagate out
\* of routeHandle, which ends the response.
C39_LoaderErrorIs204 ==
    [][\A r \in RequestIds :
          (Fetched(r) /\ Loaded(req[r]).threw) =>
              /\ req'[r].pc = "done"
              /\ req'[r].ended
              /\ req'[r].statusCode = 204
              /\ req'[r].routeFunctionHandler = Undefined
              /\ NothingInvoked(req'[r])
              /\ _cache' = _cache]_vars

\* GET /p/x matched the route registered without a handler, its handler file
\* has no default export, and the request ended 204 with nothing invoked and
\* no handler in the cache
C39_Witness ==
    \E r \in RequestIds :
        /\ req[r].pc = "done" /\ req[r].ended
        /\ req[r].url = <<"/", "p", "/", "x">>
        /\ TableKey(req[r].routePath) = ProductString
        /\ Lookup(routes[GET], ProductString) = Undefined
        /\ Loaded(req[r]).threw
        /\ req[r].statusCode = 204
        /\ NothingInvoked(req[r])
        /\ ~MapHas(_cache, HandlerKey(req[r].routePath.pattern, GET))

=============================================================================
